---- MODULE Spec2Model ----
(***************************************************************************)
(* Wireless-Transmission-Emulation: the packet codec, the XOR cipher, the  *)
(* repetition FEC, the modulation schemes, the sample-mode framing and     *)
(* receiver counters, and the packet loops of the drivers.                 *)
(*                                                                         *)
(* Bytes are naturals 0..255, byte strings are sequences of bytes, bit     *)
(* strings are sequences of 0/1.  32-bit words that do not fit the model   *)
(* checker's integers (the CRC register) are kept as 32-bit sequences,     *)
(* most significant bit first.                                             *)
(***************************************************************************)
EXTENDS Integers, Sequences, FiniteSets, TLC

VARIABLES codec, crypto, fec, phy, rx, bridge, simMain, pcMain, rcv, emu, collector,
          net, chan

vars == <<codec, crypto, fec, phy, rx, bridge, simMain, pcMain, rcv, emu, collector,
         net, chan>>

(***************************************************************************)
(* Bounds of the model                                                     *)
(***************************************************************************)
MaxPayloadLen == 2
MaxPlainLen == 2
MaxCipherLen == 6
MaxFecEncoded == 10
MaxFecReceived == 5
MaxBits == 8
MaxFrameBytes == 2
MaxSyncPayload == 1
MaxSyncBytes == 4
MaxRxPayload == 1
MaxRxPackets == 1
MaxBerBits == 1
MaxBitErrors == 1
MaxIngress == 2
MaxEmuPackets == 2
MaxWindow == 2
MaxAdds == 4
MaxResets == 1
MaxSignalLen == 6
MaxSignals == 2
MaxReads == 3
MaxRun == 99
MaxGets == 3
MaxForwarded == 2
MaxClock == 120

(***************************************************************************)
(* Bits and bytes                                                          *)
(***************************************************************************)
Pow2(n) == 2 ^ n

\* np.unpackbits of one byte: most significant bit first
ByteToBits(b) == [i \in 1..8 |-> (b \div Pow2(8 - i)) % 2]

RECURSIVE BitsToNat(_)
\* np.packbits of up to 16 bits read as a big-endian unsigned number
BitsToNat(bits) ==
    IF bits = <<>> THEN 0
    ELSE 2 * BitsToNat(SubSeq(bits, 1, Len(bits) - 1)) + bits[Len(bits)]

XorBits(a, b) == [i \in 1..Len(a) |-> (a[i] + b[i]) % 2]

\* Python's b ^ k on two bytes
XorByte(a, b) == BitsToNat(XorBits(ByteToBits(a), ByteToBits(b)))

RECURSIVE BigEndian(_, _)
\* struct.pack of an unsigned big-endian field of k bytes
BigEndian(n, k) ==
    IF k = 0 THEN <<>> ELSE Append(BigEndian(n \div 256, k - 1), n % 256)

RECURSIVE FromBigEndian(_)
\* struct.unpack of an unsigned big-endian field
FromBigEndian(bytes) ==
    IF bytes = <<>> THEN 0
    ELSE 256 * FromBigEndian(SubSeq(bytes, 1, Len(bytes) - 1)) + bytes[Len(bytes)]

RECURSIVE SeqsUpTo(_, _)
\* all sequences over S of length at most n
SeqsUpTo(S, n) ==
    IF n = 0 THEN {<<>>}
    ELSE LET shorter == SeqsUpTo(S, n - 1)
         IN shorter \cup {Append(s, x) : s \in {t \in shorter : Len(t) = n - 1}, x \in S}

(***************************************************************************)
(* zlib.crc32: reflected CRC-32, polynomial 0xEDB88320, initial value and  *)
(* final XOR 0xFFFFFFFF.  The register is a 32-bit sequence, bit 31 first. *)
(***************************************************************************)
CrcPoly == <<1,1,1,0, 1,1,0,1, 1,0,1,1, 1,0,0,0, 1,0,0,0, 0,0,1,1, 0,0,1,0, 0,0,0,0>>

AllOnes32 == [i \in 1..32 |-> 1]

\* one shift of the register: crc = (crc >> 1) ^ (POLY if crc & 1 else 0)
CrcShift(reg) ==
    LET shifted == <<0>> \o SubSeq(reg, 1, 31)
        mixed == XorBits(shifted, CrcPoly)
    IN IF reg[32] = 1 THEN SubSeq(mixed, 1, 32) ELSE shifted

\* zlib's table: the register that eight shifts make of the byte n
CrcTable ==
    [n \in 0..255 |->
        LET x == [i \in 1..24 |-> 0] \o ByteToBits(n)
        IN CrcShift(CrcShift(CrcShift(CrcShift(CrcShift(CrcShift(CrcShift(CrcShift(x))))))))]

\* the register after one more input byte: table[(crc ^ b) & 0xFF] ^ (crc >> 8)
CrcByte(reg, b) ==
    LET mixed == XorBits(CrcTable[BitsToNat(XorBits(SubSeq(reg, 25, 32), ByteToBits(b)))],
                         [i \in 1..8 |-> 0] \o SubSeq(reg, 1, 24))
    IN SubSeq(mixed, 1, 32)

RECURSIVE CrcRun(_, _)
\* the register after the bytes of data, computed byte by byte
CrcRun(reg, data) ==
    IF data = <<>> THEN reg
    ELSE LET next == CrcByte(reg, Head(data))
         IN IF Len(next) = 32 THEN CrcRun(next, Tail(data)) ELSE <<>>

\* zlib.crc32(payload) & 0xFFFFFFFF, as 32 bits
Crc32(data) == XorBits(CrcRun(AllOnes32, data), AllOnes32)

\* the 'I' field of the header holding a 32-bit word: four big-endian bytes
WordToBytes(w) == [k \in 1..4 |-> BitsToNat(SubSeq(w, 8 * k - 7, 8 * k))]

BytesToWord(bytes) == [i \in 1..32 |-> ByteToBits(bytes[((i - 1) \div 8) + 1])[((i - 1) % 8) + 1]]

(***************************************************************************)
(* IPv4 literals.  A literal is the sequence of its dot-separated parts,   *)
(* each part the sequence of its characters: 0..9 are the digits, Letter   *)
(* stands for a letter that is no hexadecimal digit (the i of              *)
(* "invalid.ip"), Space for a blank.                                       *)
(***************************************************************************)
Letter == 10
Space == 11

RECURSIVE PartValue(_, _)
\* strtoul of a digit string in the given base
PartValue(part, base) ==
    IF part = <<>> THEN 0
    ELSE base * PartValue(SubSeq(part, 1, Len(part) - 1), base) + part[Len(part)]

\* base 0 of strtoul: a leading 0 selects octal, otherwise decimal
PartBase(part) == IF Len(part) > 1 /\ part[1] = 0 THEN 8 ELSE 10

PartOk(part) ==
    /\ part # <<>>
    /\ \A i \in 1..Len(part) : part[i] < PartBase(part)

\* the largest value the last of n parts may hold (it fills the remaining bytes)
LastPartFits(v, n) ==
    CASE n = 4 -> v <= 255
      [] n = 3 -> v <= 65535
      [] n = 2 -> v <= 16777215
      [] OTHER -> TRUE

\* what the C library's inet_aton reads of the last part: glibc stops at the
\* first white space after the number and ignores everything behind it
TrimTail(part) ==
    IF \E i \in 1..Len(part) : part[i] = Space
    THEN SubSeq(part, 1, (CHOOSE i \in 1..Len(part) :
                              /\ part[i] = Space
                              /\ \A j \in 1..(i - 1) : part[j] # Space) - 1)
    ELSE part

\* socket.inet_aton: the four address bytes, or an OSError
inet_aton(lit) ==
    LET n == Len(lit)
        read == [i \in 1..n |-> IF i = n THEN TrimTail(lit[i]) ELSE lit[i]]
        val(i) == PartValue(read[i], PartBase(read[i]))
    IN IF /\ n \in 1..4
          /\ \A i \in 1..n : PartOk(read[i])
          /\ \A i \in 1..(n - 1) : val(i) <= 255
          /\ LastPartFits(val(n), n)
       THEN [ok |-> TRUE,
             bytes |-> [i \in 1..(n - 1) |-> val(i)] \o BigEndian(val(n), 5 - n)]
       ELSE [ok |-> FALSE, bytes |-> <<>>]

RECURSIVE DecDigits(_)
DecDigits(n) == IF n < 10 THEN <<n>> ELSE Append(DecDigits(n \div 10), n % 10)

\* socket.inet_ntoa: four decimal parts
inet_ntoa(bytes) == [i \in 1..4 |-> DecDigits(bytes[i])]

(***************************************************************************)
(* shared/packet_format.py                                                 *)
(***************************************************************************)
HEADER_SIZE == 26
MAX_PAYLOAD_SIZE == 65507

\* 0 <= seq <= 0xFFFFFFFF, written so that no number exceeds 31 bits
SeqInRange(seq) == seq >= 0 /\ seq \div 65536 <= 65535

PackError(exc) == [kind |-> exc, bytes |-> <<>>]

\* a faulty pack that writes the two addresses in each other's place
pack_SwappedAddresses(seq, src_ip, dst_ip, timestamp_ns, payload) ==
    LET payload_len == Len(payload)
        crc == Crc32(payload)
        src == inet_aton(src_ip)
        dst == inet_aton(dst_ip)
    IN IF ~SeqInRange(seq) THEN PackError("ValueError")
       ELSE IF payload_len > MAX_PAYLOAD_SIZE THEN PackError("ValueError")
       ELSE IF ~src.ok \/ ~dst.ok THEN PackError("ValueError")
       ELSE IF timestamp_ns < 0 \/ payload_len > 65535 THEN PackError("struct.error")
       ELSE [kind |-> "ok",
             bytes |-> BigEndian(seq, 4) \o dst.bytes \o src.bytes
                       \o BigEndian(timestamp_ns, 8) \o BigEndian(payload_len, 2)
                       \o WordToBytes(crc) \o payload]

pack(seq, src_ip, dst_ip, timestamp_ns, payload) ==
    LET payload_len == Len(payload)
        crc == Crc32(payload)
        src == inet_aton(src_ip)
        dst == inet_aton(dst_ip)
    IN IF ~SeqInRange(seq) THEN PackError("ValueError")
       ELSE IF payload_len > MAX_PAYLOAD_SIZE THEN PackError("ValueError")
       ELSE IF ~src.ok \/ ~dst.ok THEN PackError("ValueError")
       ELSE IF timestamp_ns < 0 \/ payload_len > 65535 THEN PackError("struct.error")
       ELSE [kind |-> "ok",
             bytes |-> BigEndian(seq, 4) \o src.bytes \o dst.bytes
                       \o BigEndian(timestamp_ns, 8) \o BigEndian(payload_len, 2)
                       \o WordToBytes(crc) \o payload]

UnpackError(msg) == [kind |-> "ValueError", msg |-> msg]

\* a faulty unpack that never compares the checksum
unpack_NoCrcCheck(data) ==
    IF Len(data) < HEADER_SIZE THEN UnpackError("Packet too short")
    ELSE LET seq      == FromBigEndian(SubSeq(data, 1, 4))
             src      == SubSeq(data, 5, 8)
             dst      == SubSeq(data, 9, 12)
             ts       == FromBigEndian(SubSeq(data, 13, 20))
             length   == FromBigEndian(SubSeq(data, 21, 22))
             expected_total == HEADER_SIZE + length
             payload  == SubSeq(data, HEADER_SIZE + 1, HEADER_SIZE + length)
         IN IF expected_total > Len(data) THEN UnpackError("Corrupted length field")
            ELSE [kind |-> "ok", seq |-> seq, src_ip |-> inet_ntoa(src),
                  dst_ip |-> inet_ntoa(dst), timestamp_ns |-> ts, payload |-> payload]

\* a faulty unpack that compares the checksum before it checks the length
unpack_CrcFirst(data) ==
    IF Len(data) < HEADER_SIZE THEN UnpackError("Packet too short")
    ELSE LET seq      == FromBigEndian(SubSeq(data, 1, 4))
             src      == SubSeq(data, 5, 8)
             dst      == SubSeq(data, 9, 12)
             ts       == FromBigEndian(SubSeq(data, 13, 20))
             length   == FromBigEndian(SubSeq(data, 21, 22))
             recv_crc == BytesToWord(SubSeq(data, 23, 26))
             expected_total == HEADER_SIZE + length
             last     == IF expected_total > Len(data) THEN Len(data) ELSE expected_total
             payload  == SubSeq(data, HEADER_SIZE + 1, last)
         IN IF Crc32(payload) # recv_crc THEN UnpackError("CRC mismatch")
            ELSE IF expected_total > Len(data) THEN UnpackError("Corrupted length field")
            ELSE [kind |-> "ok", seq |-> seq, src_ip |-> inet_ntoa(src),
                  dst_ip |-> inet_ntoa(dst), timestamp_ns |-> ts, payload |-> payload]

unpack(data) ==
    IF Len(data) < HEADER_SIZE THEN UnpackError("Packet too short")
    ELSE LET seq      == FromBigEndian(SubSeq(data, 1, 4))
             src      == SubSeq(data, 5, 8)
             dst      == SubSeq(data, 9, 12)
             ts       == FromBigEndian(SubSeq(data, 13, 20))
             length   == FromBigEndian(SubSeq(data, 21, 22))
             recv_crc == BytesToWord(SubSeq(data, 23, 26))
             expected_total == HEADER_SIZE + length
             payload  == SubSeq(data, HEADER_SIZE + 1, HEADER_SIZE + length)
         IN IF expected_total > Len(data) THEN UnpackError("Corrupted length field")
            ELSE IF Crc32(payload) # recv_crc THEN UnpackError("CRC mismatch")
            ELSE [kind |-> "ok", seq |-> seq, src_ip |-> inet_ntoa(src),
                  dst_ip |-> inet_ntoa(dst), timestamp_ns |-> ts, payload |-> payload]

(***************************************************************************)
(* The codec at work: a caller packs a frame, the frame travels as a       *)
(* datagram that may be damaged on the way, and a caller unpacks what      *)
(* arrives.                                                                *)
(***************************************************************************)
Ip_10_0_0_1 == <<<<1, 0>>, <<0>>, <<0>>, <<1>>>>
Ip_10_0_0_2 == <<<<1, 0>>, <<0>>, <<0>>, <<2>>>>
Ip_192_168_1_1 == <<<<1, 9, 2>>, <<1, 6, 8>>, <<1>>, <<1>>>>
Ip_010_0_0_2 == <<<<0, 1, 0>>, <<0>>, <<0>>, <<2>>>>
Ip_255_255_255_255 == <<<<2, 5, 5>>, <<2, 5, 5>>, <<2, 5, 5>>, <<2, 5, 5>>>>
Ip_256_0_0_1 == <<<<2, 5, 6>>, <<0>>, <<0>>, <<1>>>>
Ip_127_1 == <<<<1, 2, 7>>, <<1>>>>
Ip_10_0_0_1_space_x == <<<<1, 0>>, <<0>>, <<0>>, <<1, Space, Letter>>>>
Ip_invalid_ip == <<<<Letter, Letter>>, <<Letter, Letter>>>>

\* the header fields the callers pass to pack
HeaderChoices ==
    { [seq |-> 7, src_ip |-> Ip_10_0_0_1, dst_ip |-> Ip_10_0_0_2, timestamp_ns |-> 0],
      [seq |-> 42, src_ip |-> Ip_192_168_1_1, dst_ip |-> Ip_010_0_0_2,
       timestamp_ns |-> 1234567890],
      [seq |-> 2147483647, src_ip |-> Ip_255_255_255_255, dst_ip |-> Ip_127_1,
       timestamp_ns |-> 2147483647],
      [seq |-> 1, src_ip |-> Ip_invalid_ip, dst_ip |-> Ip_10_0_0_1, timestamp_ns |-> 0],
      [seq |-> 1, src_ip |-> Ip_10_0_0_1, dst_ip |-> Ip_256_0_0_1, timestamp_ns |-> 0],
      [seq |-> 3, src_ip |-> Ip_10_0_0_1_space_x, dst_ip |-> Ip_10_0_0_2,
       timestamp_ns |-> 0] }

ScenarioHeader ==
    { [seq |-> 7, src_ip |-> Ip_10_0_0_1, dst_ip |-> Ip_10_0_0_2, timestamp_ns |-> 0] }

PayloadBytes == {84, 255}
CrcPayloadBytes == {0, 84, 255}
FlipMasks == {1, 255}
AllMasks == 1..255
LengthValues == 0..3
TruncateLens == {0, 25, 26, 27}

\* a payload one byte longer than pack allows
Payload_too_large == [i \in 1..(MAX_PAYLOAD_SIZE + 1) |-> 0]

NoArgs == [seq |-> 0, src_ip |-> <<>>, dst_ip |-> <<>>, timestamp_ns |-> 0, payload |-> <<>>]
NoResult == [kind |-> "none"]

CodecInit ==
    codec = [phase |-> "idle", args |-> NoArgs, packed |-> "none", wire |-> <<>>,
             tampers |-> {}, result |-> NoResult]

othersOfCodec == <<crypto, fec, phy, rx, bridge, simMain, pcMain, rcv, emu, collector,
                   net, chan>>

\* a caller builds a frame with pack
CodecPack(headers, bytes) ==
    \E h \in headers, p \in SeqsUpTo(bytes, MaxPayloadLen) \cup {Payload_too_large} :
        LET r == pack(h.seq, h.src_ip, h.dst_ip, h.timestamp_ns, p)
        IN /\ codec.phase = "idle"
           /\ codec' = [phase |-> IF r.kind = "ok" THEN "packed" ELSE "rejected",
                        args |-> [seq |-> h.seq, src_ip |-> h.src_ip, dst_ip |-> h.dst_ip,
                                  timestamp_ns |-> h.timestamp_ns, payload |-> p],
                        packed |-> r.kind, wire |-> r.bytes, tampers |-> {},
                        result |-> NoResult]
           /\ UNCHANGED othersOfCodec

\* packet_bytes[i] ^= mask on one byte of the payload region
CodecFlipPayload(masks) ==
    \E i \in (HEADER_SIZE + 1)..Len(codec.wire), m \in masks :
        /\ codec.phase = "packed"
        /\ "payload" \notin codec.tampers
        /\ codec' = [codec EXCEPT !.wire[i] = XorByte(@, m),
                                  !.tampers = @ \cup {"payload"}]
        /\ UNCHANGED othersOfCodec

\* the datagram arrives with another value in its length field
CodecSetLength ==
    \E v \in LengthValues :
        /\ codec.phase = "packed"
        /\ "length" \notin codec.tampers
        /\ Len(codec.wire) >= 22
        /\ FromBigEndian(SubSeq(codec.wire, 21, 22)) # v
        /\ codec' = [codec EXCEPT !.wire[21] = BigEndian(v, 2)[1],
                                  !.wire[22] = BigEndian(v, 2)[2],
                                  !.tampers = @ \cup {"length"}]
        /\ UNCHANGED othersOfCodec

\* the datagram arrives with a damaged CRC field
CodecFlipCrc ==
    \E i \in 23..26 :
        /\ codec.phase = "packed"
        /\ "crc" \notin codec.tampers
        /\ Len(codec.wire) >= i
        /\ codec' = [codec EXCEPT !.wire[i] = XorByte(@, 128),
                                  !.tampers = @ \cup {"crc"}]
        /\ UNCHANGED othersOfCodec

\* only the first n bytes of the datagram arrive
CodecTruncate ==
    \E n \in TruncateLens :
        /\ codec.phase = "packed"
        /\ "truncate" \notin codec.tampers
        /\ n < Len(codec.wire)
        /\ codec' = [codec EXCEPT !.wire = SubSeq(@, 1, n),
                                  !.tampers = @ \cup {"truncate"}]
        /\ UNCHANGED othersOfCodec

\* a caller hands the datagram to unpack
CodecUnpack ==
    /\ codec.phase = "packed"
    /\ codec' = [codec EXCEPT !.phase = "unpacked", !.result = unpack(codec.wire)]
    /\ UNCHANGED othersOfCodec

(***************************************************************************)
(* Properties of the codec                                                 *)
(***************************************************************************)
\* four dot-separated parts that pack accepts
ValidDottedQuad(lit) == Len(lit) = 4 /\ inet_aton(lit).ok

\* four decimal parts, none written with a leading zero, and nothing else
CanonicalQuad(lit) ==
    /\ ValidDottedQuad(lit)
    /\ \A i \in 1..4 : Len(lit[i]) = 1 \/ lit[i][1] # 0
    /\ \A i \in 1..4 : \A k \in 1..Len(lit[i]) : lit[i][k] < 10

\* an undamaged frame built from valid dotted-quad literals has been unpacked
CleanRoundTrip ==
    /\ codec.phase = "unpacked"
    /\ codec.tampers = {}
    /\ ValidDottedQuad(codec.args.src_ip)
    /\ ValidDottedQuad(codec.args.dst_ip)

C2_CrcSensitivity ==
    (/\ codec.phase = "unpacked"
     /\ codec.tampers = {"payload"}
     /\ codec.args.payload # <<>>)
        => codec.result = UnpackError("CRC mismatch")

C2_Witness ==
    /\ codec.phase = "unpacked"
    /\ codec.tampers = {"payload"}
    /\ codec.args.payload = <<84, 84>>
    /\ codec.wire[HEADER_SIZE + 1] = 85
    /\ SubSeq(codec.wire, 1, HEADER_SIZE)
           = SubSeq(pack(7, Ip_10_0_0_1, Ip_10_0_0_2, 0, <<84, 84>>).bytes, 1, HEADER_SIZE)
    /\ codec.result = UnpackError("CRC mismatch")

DeclaredLength(wire) == FromBigEndian(SubSeq(wire, 21, 22))

\* C10: a buffer shorter than 26 bytes fails as too short; a buffer of at least
\* 26 bytes whose length field exceeds the bytes after the header fails as bad
\* length whatever its CRC field holds; a CRC mismatch is reported only for a
\* buffer that passes both checks; the three failures differ for the caller.
C10_FailureKinds ==
    codec.phase = "unpacked" =>
        /\ Len(codec.wire) < 26 => codec.result = UnpackError("Packet too short")
        /\ (Len(codec.wire) >= 26 /\ DeclaredLength(codec.wire) > Len(codec.wire) - 26)
               => codec.result = UnpackError("Corrupted length field")
        /\ codec.result = UnpackError("CRC mismatch")
               => (Len(codec.wire) >= 26
                   /\ DeclaredLength(codec.wire) <= Len(codec.wire) - 26)
        /\ codec.result.kind = "ValueError"
               => /\ codec.result.msg
                        \in {"Packet too short", "Corrupted length field", "CRC mismatch"}
                  /\ (codec.result.msg = "Packet too short") <=> (Len(codec.wire) < 26)

C10_Witness ==
    /\ codec.phase = "unpacked"
    /\ Len(codec.wire) >= 26
    /\ DeclaredLength(codec.wire) > Len(codec.wire) - 26
    /\ {"length", "crc"} \subseteq codec.tampers
    /\ codec.result = UnpackError("Corrupted length field")

\* a literal of one to four numbers and nothing else, each within its range
ValidIPv4Literal(lit) ==
    /\ inet_aton(lit).ok
    /\ \A i \in 1..Len(lit) : \A k \in 1..Len(lit[i]) : lit[i][k] < 10

\* pack has just returned or raised
PackReturned == codec.phase \in {"packed", "rejected"} /\ codec.tampers = {}

\* C11: pack raises ValueError and returns no bytes whenever the payload is
\* longer than 65507 bytes or src_ip or dst_ip is not a valid IPv4 literal;
\* with a payload of at most 65507 bytes, valid addresses, seq in u32 and
\* timestamp in u64 it returns 26 + |payload| bytes.
C11_PackRejectsInvalid ==
    PackReturned =>
        /\ (\/ Len(codec.args.payload) > 65507
            \/ ~ValidIPv4Literal(codec.args.src_ip)
            \/ ~ValidIPv4Literal(codec.args.dst_ip))
               => (codec.packed = "ValueError" /\ codec.wire = <<>>)
        /\ (/\ Len(codec.args.payload) <= 65507
            /\ ValidIPv4Literal(codec.args.src_ip)
            /\ ValidIPv4Literal(codec.args.dst_ip)
            /\ SeqInRange(codec.args.seq)
            /\ codec.args.timestamp_ns >= 0)
               => (codec.packed = "ok" /\ Len(codec.wire) = 26 + Len(codec.args.payload))

(***************************************************************************)
(* shared/crypto_utils.py                                                  *)
(***************************************************************************)
\* b"simurf-secret-key-v1"
DEFAULT_KEY ==
    <<115, 105, 109, 117, 114, 102, 45, 115, 101, 99, 114, 101, 116, 45, 107, 101, 121,
      45, 118, 49>>

\* the argument of CryptoManager(key=...) when the caller passes none
None == <<"None">>

\* CryptoManager.__init__: self.key = key or DEFAULT_KEY, then the length check
CryptoManager(key) ==
    LET k == IF key = None \/ key = <<>> THEN DEFAULT_KEY ELSE key
    IN IF Len(k) < 8 THEN [kind |-> "ValueError", key |-> <<>>]
       ELSE [kind |-> "ok", key |-> k]

\* CryptoManager._xor
xor(data, keystream) ==
    [i \in 1..Len(data) |-> XorByte(data[i], keystream[((i - 1) % Len(keystream)) + 1])]

\* CryptoManager.encrypt with the nonce os.urandom(4) returned
encrypt(key, plaintext, nonce) ==
    IF plaintext = <<>> THEN [kind |-> "ValueError", bytes |-> <<>>]
    ELSE [kind |-> "ok", bytes |-> nonce \o xor(plaintext, nonce \o key)]

\* a faulty decrypt whose keystream is key + nonce instead of nonce + key
decrypt_KeyBeforeNonce(key, data) ==
    IF Len(data) < 5 THEN [kind |-> "ValueError", bytes |-> <<>>]
    ELSE LET nonce == SubSeq(data, 1, 4)
             ciphertext == SubSeq(data, 5, Len(data))
         IN [kind |-> "ok", bytes |-> xor(ciphertext, key \o nonce)]

\* a faulty decrypt that asks for the nonce only
decrypt_NonceOnly(key, data) ==
    IF Len(data) < 4 THEN [kind |-> "ValueError", bytes |-> <<>>]
    ELSE LET nonce == SubSeq(data, 1, 4)
             ciphertext == SubSeq(data, 5, Len(data))
         IN [kind |-> "ok", bytes |-> xor(ciphertext, nonce \o key)]

\* CryptoManager.decrypt
decrypt(key, data) ==
    IF Len(data) < 5 THEN [kind |-> "ValueError", bytes |-> <<>>]
    ELSE LET nonce == SubSeq(data, 1, 4)
             ciphertext == SubSeq(data, 5, Len(data))
         IN [kind |-> "ok", bytes |-> xor(ciphertext, nonce \o key)]

\* b"test-key-12345", an 8-byte key and a 7-byte key
Key_test_key_12345 == <<116, 101, 115, 116, 45, 107, 101, 121, 45, 49, 50, 51, 52, 53>>
Key_8_bytes == <<1, 2, 4, 8, 16, 32, 64, 128>>
Key_7_bytes == <<1, 2, 4, 8, 16, 32, 64>>

KeyArguments == {None, <<>>, Key_7_bytes, Key_8_bytes, Key_test_key_12345}

\* values os.urandom(4) may return
NonceChoices == {<<0, 0, 0, 0>>, <<255, 255, 255, 255>>, <<222, 173, 190, 239>>, <<1, 2, 4, 8>>}

PlainBytes == {0, 83, 255}

\* b"Secret message" and a text longer than every keystream of the model
Plain_Secret_message == <<83, 101, 99, 114, 101, 116, 32, 109, 101, 115, 115, 97, 103, 101>>
Plain_26_bytes == [i \in 1..26 |-> (i * 37) % 256]

Plaintexts == SeqsUpTo(PlainBytes, MaxPlainLen) \cup {Plain_Secret_message, Plain_26_bytes}

CryptoInit ==
    crypto = [phase |-> "none", key_arg |-> None, key |-> <<>>, plaintext |-> <<>>,
              nonce |-> <<>>, ciphertext |-> <<>>, result |-> NoResult]

othersOfCrypto == <<codec, fec, phy, rx, bridge, simMain, pcMain, rcv, emu, collector,
                    net, chan>>

\* an endpoint constructs its CryptoManager
CryptoNew ==
    \E k \in KeyArguments :
        LET m == CryptoManager(k)
        IN /\ crypto.phase = "none"
           /\ crypto' = [crypto EXCEPT !.phase = IF m.kind = "ok" THEN "ready" ELSE "rejected",
                                       !.key_arg = k, !.key = m.key]
           /\ UNCHANGED othersOfCrypto

\* the sender encrypts a message
CryptoEncrypt ==
    \E p \in Plaintexts, n \in NonceChoices :
        LET c == encrypt(crypto.key, p, n)
        IN /\ crypto.phase = "ready"
           /\ crypto' = [crypto EXCEPT
                            !.phase = IF c.kind = "ok" THEN "encrypted" ELSE "refused",
                            !.plaintext = p, !.nonce = n, !.ciphertext = c.bytes]
           /\ UNCHANGED othersOfCrypto

\* the receiver, holding the same key, decrypts what the sender produced
CryptoDecrypt ==
    /\ crypto.phase = "encrypted"
    /\ crypto' = [crypto EXCEPT !.phase = "decrypted",
                                !.result = decrypt(crypto.key, crypto.ciphertext)]
    /\ UNCHANGED othersOfCrypto

\* what a receiver may be handed instead of a ciphertext
ReceivedBytes == {0, 255}

\* the receiver decrypts whatever bytes reached it
CryptoDecryptReceived ==
    \E data \in SeqsUpTo(ReceivedBytes, MaxCipherLen) :
        /\ crypto.phase = "ready"
        /\ crypto' = [crypto EXCEPT !.phase = "received", !.ciphertext = data,
                                    !.result = decrypt(crypto.key, data)]
        /\ UNCHANGED othersOfCrypto

\* C3: for every key of at least 8 bytes, non-empty plaintext p and nonce,
\* decrypt(encrypt(p)) = p, and the ciphertext is 4 bytes longer than p and
\* starts with the nonce.
C3_CipherRoundTrip ==
    /\ crypto.phase \in {"encrypted", "decrypted"}
           => /\ Len(crypto.key) >= 8
              /\ crypto.plaintext # <<>>
              /\ Len(crypto.ciphertext) = Len(crypto.plaintext) + 4
              /\ SubSeq(crypto.ciphertext, 1, 4) = crypto.nonce
    /\ crypto.phase = "decrypted"
           => crypto.result = [kind |-> "ok", bytes |-> crypto.plaintext]

\* a round trip whose plaintext is longer than the keystream, so that the
\* keystream wraps around
C3_Witness ==
    /\ crypto.phase = "decrypted"
    /\ crypto.key = Key_8_bytes
    /\ crypto.plaintext = Plain_26_bytes
    /\ crypto.nonce = <<222, 173, 190, 239>>
    /\ crypto.result.bytes = Plain_26_bytes
    /\ SubSeq(crypto.ciphertext, 5, 30) # Plain_26_bytes

\* C27: CryptoManager(key) raises ValueError for every explicitly supplied key
\* shorter than 8 bytes, including the empty key; every instance that exists
\* uses exactly the key it was given, or the default key only when no key was
\* given, and that key has at least 8 bytes.
C27_KeyLengthEnforced ==
    crypto.phase # "none" =>
        /\ (crypto.key_arg # None /\ Len(crypto.key_arg) < 8) => crypto.phase = "rejected"
        /\ crypto.phase # "rejected"
               => /\ crypto.key = IF crypto.key_arg = None THEN DEFAULT_KEY
                                                           ELSE crypto.key_arg
                  /\ Len(crypto.key) >= 8

\* C12: decrypt fails with a too-short ValueError for every input of fewer
\* than 5 bytes, and for every input of 5 or more bytes returns a plaintext
\* of exactly |input| - 4 bytes without error.
C12_DecryptLengthCheck ==
    crypto.phase \in {"received", "decrypted"} =>
        IF Len(crypto.ciphertext) < 5
        THEN crypto.result = [kind |-> "ValueError", bytes |-> <<>>]
        ELSE /\ crypto.result.kind = "ok"
             /\ Len(crypto.result.bytes) = Len(crypto.ciphertext) - 4

\* four bytes, a nonce without data, were refused
C12_Witness ==
    /\ crypto.phase = "received"
    /\ Len(crypto.ciphertext) = 4
    /\ crypto.result.kind = "ValueError"

(***************************************************************************)
(* shared/fec_utils.py                                                     *)
(***************************************************************************)
MAX_REPETITION == 15

\* FECCodec.__init__
FECCodec(repetition) ==
    IF repetition < 1 \/ repetition > MAX_REPETITION
    THEN [kind |-> "ValueError", repetition |-> 0]
    ELSE [kind |-> "ok", repetition |-> repetition]

\* a faulty encode that writes the whole data r times over
fec_encode_WholeRepeated(data, r) ==
    [k \in 1..(Len(data) * r) |-> data[((k - 1) % Len(data)) + 1]]

\* FECCodec.encode: every byte written r times in a row
fec_encode(data, r) == [k \in 1..(Len(data) * r) |-> data[((k - 1) \div r) + 1]]

CountIn(chunk, b) == Cardinality({j \in 1..Len(chunk) : chunk[j] = b})

\* a faulty vote that settles a tie by the smallest byte value
MostCommon_SmallestTied(chunk) ==
    LET best == CHOOSE c \in {CountIn(chunk, chunk[j]) : j \in 1..Len(chunk)} :
                    \A j \in 1..Len(chunk) : CountIn(chunk, chunk[j]) <= c
        tied == {chunk[j] : j \in {i \in 1..Len(chunk) : CountIn(chunk, chunk[i]) = best}}
    IN [byte |-> CHOOSE b \in tied : \A x \in tied : b <= x, count |-> best]

\* Counter(chunk).most_common(1)[0]: the highest count, and among the bytes
\* that reach it the one that entered the counter first
MostCommon(chunk) ==
    LET best == CHOOSE c \in {CountIn(chunk, chunk[j]) : j \in 1..Len(chunk)} :
                    \A j \in 1..Len(chunk) : CountIn(chunk, chunk[j]) <= c
        first == CHOOSE j \in 1..Len(chunk) :
                    /\ CountIn(chunk, chunk[j]) = best
                    /\ \A i \in 1..(j - 1) : CountIn(chunk, chunk[i]) # best
    IN [byte |-> chunk[first], count |-> best]

RECURSIVE SumTo(_, _)
SumTo(f, n) == IF n = 0 THEN 0 ELSE SumTo(f, n - 1) + f[n]

\* a faulty decode that takes the first byte of each group without a vote
fec_decode_FirstOfGroup(data, r) ==
    IF Len(data) % r # 0 THEN [kind |-> "ValueError", bytes |-> <<>>, corrections |-> 0]
    ELSE LET groups == Len(data) \div r
         IN [kind |-> "ok",
             bytes |-> [g \in 1..groups |-> data[(g - 1) * r + 1]],
             corrections |-> 0]

\* a faulty decode that votes on the whole groups and drops what is left over
fec_decode_DropsRemainder(data, r) ==
    LET groups == Len(data) \div r
        vote == [g \in 1..groups |-> MostCommon(SubSeq(data, (g - 1) * r + 1, g * r))]
    IN [kind |-> "ok",
        bytes |-> [g \in 1..groups |-> vote[g].byte],
        corrections |-> SumTo([g \in 1..groups |-> r - vote[g].count], groups)]

\* a faulty decode that counts the groups it corrected, not the bytes
fec_decode_CountsGroups(data, r) ==
    IF Len(data) % r # 0 THEN [kind |-> "ValueError", bytes |-> <<>>, corrections |-> 0]
    ELSE LET groups == Len(data) \div r
             vote == [g \in 1..groups |-> MostCommon(SubSeq(data, (g - 1) * r + 1, g * r))]
         IN [kind |-> "ok",
             bytes |-> [g \in 1..groups |-> vote[g].byte],
             corrections |-> SumTo([g \in 1..groups |->
                                       IF vote[g].count < r THEN 1 ELSE 0], groups)]

\* FECCodec.decode: (decoded, corrections) or a ValueError
fec_decode(data, r) ==
    IF Len(data) % r # 0 THEN [kind |-> "ValueError", bytes |-> <<>>, corrections |-> 0]
    ELSE LET groups == Len(data) \div r
             vote == [g \in 1..groups |-> MostCommon(SubSeq(data, (g - 1) * r + 1, g * r))]
         IN [kind |-> "ok",
             bytes |-> [g \in 1..groups |-> vote[g].byte],
             corrections |-> SumTo([g \in 1..groups |-> r - vote[g].count], groups)]

\* FECCodec.max_correctable_errors_per_byte
max_correctable_errors_per_byte(r) == (r - 1) \div 2

FecDataBytes == {65, 66}
FecErrorMasks == {3, 255}

FecInit ==
    fec = [phase |-> "none", r |-> 0, data |-> <<>>, encoded |-> <<>>, received |-> <<>>,
           result |-> NoResult]

othersOfFec == <<codec, crypto, phy, rx, bridge, simMain, pcMain, rcv, emu, collector,
                 net, chan>>

\* an endpoint constructs its codec
FecNew ==
    \E r \in 0..(MAX_REPETITION + 1) :
        LET c == FECCodec(r)
        IN /\ fec.phase = "none"
           /\ fec' = [fec EXCEPT !.phase = IF c.kind = "ok" THEN "ready" ELSE "rejected",
                                 !.r = c.repetition]
           /\ UNCHANGED othersOfFec

\* the sender encodes a byte string
FecEncode ==
    /\ fec.phase = "ready"
    /\ \E p \in SeqsUpTo(FecDataBytes, MaxFecEncoded \div fec.r) \cup {<<66>>} :
           fec' = [fec EXCEPT !.phase = "encoded", !.data = p,
                              !.encoded = fec_encode(p, fec.r),
                              !.received = fec_encode(p, fec.r)]
    /\ UNCHANGED othersOfFec

GroupOf(k, r) == ((k - 1) \div r) + 1

\* the positions of group g where what was received differs from what was sent
Damaged(g) ==
    {k \in 1..Len(fec.received) : GroupOf(k, fec.r) = g /\ fec.received[k] # fec.encoded[k]}

\* the channel alters one more byte, keeping within the correctable number of
\* altered bytes per group
FecCorrupt ==
    \E k \in 1..Len(fec.received), m \in FecErrorMasks :
        /\ fec.phase = "encoded"
        /\ Len(fec.encoded) <= MaxFecEncoded
        /\ fec.received[k] = fec.encoded[k]
        /\ Cardinality(Damaged(GroupOf(k, fec.r))) < max_correctable_errors_per_byte(fec.r)
        /\ fec' = [fec EXCEPT !.received[k] = XorByte(@, m)]
        /\ UNCHANGED othersOfFec

\* the receiver decodes what arrived
FecDecode ==
    /\ fec.phase = "encoded"
    /\ fec' = [fec EXCEPT !.phase = "decoded", !.result = fec_decode(fec.received, fec.r)]
    /\ UNCHANGED othersOfFec

\* the bytes a receiver may be handed instead of an encoding
FecReceivedBytes == {65, 66, 67}

\* the receiver decodes whatever bytes reached it
FecDecodeReceived ==
    \E data \in SeqsUpTo(FecReceivedBytes, MaxFecReceived) :
        /\ fec.phase = "ready"
        /\ fec' = [fec EXCEPT !.phase = "received", !.received = data,
                              !.result = fec_decode(data, fec.r)]
        /\ UNCHANGED othersOfFec

\* C4: whenever at most floor((r-1)/2) bytes inside each group of r bytes of
\* encode(p, r) were altered, decode returns p as its decoded data.
C4_FecCorrectionBound ==
    (/\ fec.phase = "decoded"
     /\ \A g \in 1..Len(fec.data) : Cardinality(Damaged(g)) <= (fec.r - 1) \div 2)
        => (fec.result.kind = "ok" /\ fec.result.bytes = fec.data)

\* two groups of r = 3 with one altered byte each, one of them altered into
\* the other data byte
C4_Witness ==
    /\ fec.phase = "decoded"
    /\ fec.r = 3
    /\ fec.data = <<65, 66>>
    /\ Cardinality(Damaged(1)) = 1
    /\ Cardinality(Damaged(2)) = 1
    /\ \E k \in Damaged(1) : fec.received[k] = 66
    /\ fec.result.bytes = <<65, 66>>
    /\ fec.result.corrections = 2

\* C13: encode(p, r) has length |p| * r with output byte i * r + j equal to
\* p[i] for all 0 <= j < r, and decode(encode(p, r), r) returns (p, 0).
C13_EncodeShapeCleanDecode ==
    /\ fec.phase \in {"encoded", "decoded"}
           => /\ fec.r \in 1..15
              /\ Len(fec.encoded) = Len(fec.data) * fec.r
              /\ \A i \in 0..(Len(fec.data) - 1), j \in 0..(fec.r - 1) :
                     fec.encoded[i * fec.r + j + 1] = fec.data[i + 1]
    /\ (fec.phase = "decoded" /\ fec.received = fec.encoded)
           => fec.result = [kind |-> "ok", bytes |-> fec.data, corrections |-> 0]

\* the largest repetition factor, encoded and decoded without an error
C13_Witness ==
    /\ fec.phase = "decoded"
    /\ fec.r = 15
    /\ fec.data = <<66>>
    /\ Len(fec.encoded) = 15
    /\ fec.received = fec.encoded
    /\ fec.result = [kind |-> "ok", bytes |-> <<66>>, corrections |-> 0]

\* C14: decode fails with a bad-length ValueError exactly when |data| is not a
\* multiple of r; for every input whose length is a multiple of r, whatever
\* its content, it returns |data| / r bytes and does not raise.
C14_DecodeLengthCheck ==
    fec.phase \in {"received", "decoded"} =>
        /\ fec.result.kind \in {"ok", "ValueError"}
        /\ (fec.result.kind = "ValueError") <=> (Len(fec.received) % fec.r # 0)
        /\ Len(fec.received) % fec.r = 0
               => Len(fec.result.bytes) = Len(fec.received) \div fec.r

\* a group of three different bytes, beyond what the code can correct, decoded
\* into one byte
C14_Witness ==
    /\ fec.phase = "received"
    /\ fec.r = 3
    /\ fec.received = <<65, 66, 67>>
    /\ fec.result.kind = "ok"
    /\ Len(fec.result.bytes) = 1

\* the bytes of group g that differ from the byte decode returned for it
Outvoted(g) ==
    {k \in 1..Len(fec.received) :
        GroupOf(k, fec.r) = g /\ fec.received[k] # fec.result.bytes[g]}

\* the groups in which a byte was altered
DamagedGroups == {g \in 1..Len(fec.data) : Damaged(g) # {}}

\* C15: the corrections count is the sum over all groups of r minus the
\* number of bytes of the group equal to the decoded byte; with r >= 3 and
\* exactly one byte altered in each of k groups the count is k.
C15_CorrectionCount ==
    /\ (fec.phase \in {"received", "decoded"} /\ fec.result.kind = "ok")
           => fec.result.corrections =
                  SumTo([g \in 1..Len(fec.result.bytes) |-> Cardinality(Outvoted(g))],
                        Len(fec.result.bytes))
    /\ (/\ fec.phase = "decoded"
        /\ fec.r >= 3
        /\ \A g \in 1..Len(fec.data) : Cardinality(Damaged(g)) <= 1)
           => fec.result.corrections = Cardinality(DamagedGroups)

\* three groups of r = 3, one byte altered in two of them
C15_Witness ==
    /\ fec.phase = "decoded"
    /\ fec.r = 3
    /\ Len(fec.data) = 3
    /\ Cardinality(Damaged(1)) = 1
    /\ Damaged(2) = {}
    /\ Cardinality(Damaged(3)) = 1
    /\ fec.result.corrections = 2

\* the bytes of group g as they were received
GroupBytes(g) == SubSeq(fec.received, (g - 1) * fec.r + 1, g * fec.r)

\* the byte values of a group that share its highest count
TiedValues(chunk) ==
    {b \in {chunk[j] : j \in 1..Len(chunk)} :
        \A j \in 1..Len(chunk) : CountIn(chunk, chunk[j]) <= CountIn(chunk, b)}

\* the first position of byte b in a group
FirstOccurrence(chunk, b) ==
    CHOOSE j \in 1..Len(chunk) : chunk[j] = b /\ \A i \in 1..(j - 1) : chunk[i] # b

\* C25: for every group in which two or more byte values share the highest
\* count, decode outputs the tied value whose first occurrence lies earliest
\* in the group (the first byte of a group of pairwise distinct bytes), and
\* the output for a group depends only on the bytes of that group.
C25_TieBreakDeterministic ==
    (fec.phase \in {"received", "decoded"} /\ fec.result.kind = "ok") =>
        \A g \in 1..Len(fec.result.bytes) :
            LET chunk == GroupBytes(g)
                out == fec.result.bytes[g]
            IN /\ out \in TiedValues(chunk)
               /\ \A b \in TiedValues(chunk) :
                      FirstOccurrence(chunk, out) <= FirstOccurrence(chunk, b)
               /\ Cardinality(TiedValues(chunk)) = Len(chunk) => out = chunk[1]
               /\ fec_decode(chunk, fec.r).bytes = <<out>>

\* a group of five in which 65 and 66 tie behind a leading 67, decoded to 65
C25_Witness ==
    /\ fec.phase = "received"
    /\ fec.r = 5
    /\ fec.received = <<67, 65, 66, 66, 65>>
    /\ fec.result.kind = "ok"
    /\ fec.result.bytes = <<65>>

(***************************************************************************)
(* simurf/utils/modulation.py.  A symbol is the pair <<I, Q>> of its       *)
(* coordinates before the positive scale factor (1/sqrt(2) for QPSK,       *)
(* 1/sqrt(10) for 16-QAM), which changes neither a sign nor which          *)
(* constellation point is nearest.  An array of bits carries its numpy     *)
(* dtype: arithmetic on a uint8 array stays in uint8 and wraps modulo 256. *)
(***************************************************************************)
Schemes == {"bpsk", "qpsk", "16qam"}
Dtypes == {"uint8", "int64"}

bits_per_symbol(M) == CASE M = "bpsk" -> 1 [] M = "qpsk" -> 2 [] M = "16qam" -> 4

Zeros(n) == [i \in 1..n |-> 0]

\* the value of an integer expression computed in an array of the given dtype
InDtype(x, dtype) == IF dtype = "uint8" THEN x % 256 ELSE x

\* symbols = 1 - 2 * bits.astype(float)
bpsk_modulate(bits) == [i \in 1..Len(bits) |-> <<1 - 2 * bits[i], 0>>]

bpsk_demodulate(symbols) == [i \in 1..Len(symbols) |-> IF symbols[i][1] < 0 THEN 1 ELSE 0]

\* np.append(bits, 0) joins the array with an int64 zero: the result is int64
qpsk_modulate(bits, dtype) ==
    LET odd == Len(bits) % 2 # 0
        b == IF odd THEN bits \o <<0>> ELSE bits
        dt == IF odd THEN "int64" ELSE dtype
        level(x) == InDtype(1 - InDtype(2 * x, dt), dt)
    IN [k \in 1..(Len(b) \div 2) |-> <<level(b[2 * k - 1]), level(b[2 * k])>>]

qpsk_demodulate(symbols) ==
    [i \in 1..(2 * Len(symbols)) |->
        LET sym == symbols[((i - 1) \div 2) + 1]
        IN IF i % 2 = 1 THEN (IF sym[1] < 0 THEN 1 ELSE 0)
                        ELSE (IF sym[2] < 0 THEN 1 ELSE 0)]

\* qam16_constellation[idx], idx = 0..15
qam16_constellation(idx) == <<2 * (idx \div 4) - 3, 2 * (idx % 4) - 3>>

\* a faulty table that labels the points in natural binary order
qam16_gray_map_Binary(idx) == idx

\* qam16_gray_map[idx], idx = 0..15
qam16_gray_map(idx) == <<0, 1, 3, 2, 4, 5, 7, 6, 12, 13, 15, 14, 8, 9, 11, 10>>[idx + 1]

\* qam16_gray_demap = {v: k for k, v in qam16_gray_map.items()}: the last k wins
qam16_gray_demap(label) ==
    CHOOSE k \in 0..15 :
        /\ qam16_gray_map(k) = label
        /\ \A j \in (k + 1)..15 : qam16_gray_map(j) # label

qam16_modulate(bits) ==
    LET remainder == Len(bits) % 4
        b == IF remainder # 0 THEN bits \o Zeros(4 - remainder) ELSE bits
    IN [k \in 1..(Len(b) \div 4) |->
           qam16_constellation(
               qam16_gray_demap(8 * b[4 * k - 3] + 4 * b[4 * k - 2] + 2 * b[4 * k - 1] + b[4 * k]))]

SquaredDistance(s, c) == (s[1] - c[1]) * (s[1] - c[1]) + (s[2] - c[2]) * (s[2] - c[2])

\* np.argmin of the distances to the 16 points: the first nearest point
ClosestIdx(sym) ==
    CHOOSE k \in 0..15 :
        /\ \A j \in 0..15 : SquaredDistance(sym, qam16_constellation(k))
                                <= SquaredDistance(sym, qam16_constellation(j))
        /\ \A j \in 0..(k - 1) : SquaredDistance(sym, qam16_constellation(j))
                                    > SquaredDistance(sym, qam16_constellation(k))

qam16_demodulate(symbols) ==
    [i \in 1..(4 * Len(symbols)) |->
        LET bit_value == qam16_gray_map(ClosestIdx(symbols[((i - 1) \div 4) + 1]))
        IN (bit_value \div Pow2(3 - ((i - 1) % 4))) % 2]

\* WirelessTransmitter.bits_to_symbols
bits_to_symbols(bits, dtype, M) ==
    CASE M = "bpsk" -> bpsk_modulate(bits)
      [] M = "qpsk" -> qpsk_modulate(bits, dtype)
      [] M = "16qam" -> qam16_modulate(bits)

\* WirelessReceiver.symbols_to_bits
symbols_to_bits(symbols, M) ==
    CASE M = "bpsk" -> bpsk_demodulate(symbols)
      [] M = "qpsk" -> qpsk_demodulate(symbols)
      [] M = "16qam" -> qam16_demodulate(symbols)

(***************************************************************************)
(* simurf/transmitter.py and simurf/receiver.py: framing                   *)
(***************************************************************************)
start_seq == <<1, 0, 1, 0, 1, 1, 0, 0>>
stop_seq == <<0, 0, 1, 1, 0, 1, 0, 1>>

\* np.unpackbits(np.frombuffer(packet_data, dtype=np.uint8))
BytesToBits(bytes) ==
    [i \in 1..(8 * Len(bytes)) |-> ByteToBits(bytes[((i - 1) \div 8) + 1])[((i - 1) % 8) + 1]]

\* np.packbits(bits).tobytes() for a whole number of bytes
BitsToBytes(bits) == [k \in 1..(Len(bits) \div 8) |-> BitsToNat(SubSeq(bits, 8 * k - 7, 8 * k))]

\* WirelessTransmitter.packet_to_bits: [start_seq | length | data | stop_seq]
packet_to_bits(packet_data) ==
    start_seq \o BytesToBits(BigEndian(Len(packet_data) % 65536, 2))
              \o BytesToBits(packet_data) \o stop_seq

Abs(x) == IF x < 0 THEN -x ELSE x

\* np.correlate(2 * bits - 1, 2 * pattern - 1, mode='valid')[k], k = 0..
Correlation(bits, pattern, k) ==
    SumTo([n \in 1..Len(pattern) |-> (2 * bits[k + n] - 1) * (2 * pattern[n] - 1)],
          Len(pattern))

\* WirelessReceiver._find_sync_pattern with sync_threshold = 0.7: the first
\* position of the largest |correlation|, or -1
find_sync_pattern(bits, pattern) ==
    IF Len(bits) < Len(pattern) THEN -1
    ELSE LET last == Len(bits) - Len(pattern)
             mag(k) == Abs(Correlation(bits, pattern, k))
             mags == {mag(k) : k \in 0..last}
             peak == CHOOSE m \in mags : \A x \in mags : x <= m
             max_corr_idx == CHOOSE k \in 0..last :
                                 /\ mag(k) = peak
                                 /\ \A j \in 0..(k - 1) : mag(j) # peak
         IN IF 10 * mag(max_corr_idx) > 7 * Len(pattern) THEN max_corr_idx ELSE -1

\* length_bytes * 8 for the numpy uint16 scalar length_bytes: numpy 2 keeps
\* the product in uint16, older releases promote it to int64
LengthTimes8(length_bytes, promotion) ==
    IF promotion = "nep50" THEN (length_bytes * 8) % 65536 ELSE length_bytes * 8

NoPacket(why) == [kind |-> "None", why |-> why, bytes |-> <<>>]

\* WirelessReceiver.bits_to_packet
bits_to_packet(bits, promotion) ==
    LET start_pos == find_sync_pattern(bits, start_seq)
        length_start == start_pos + Len(start_seq)
        length_bytes == BitsToNat(SubSeq(bits, length_start + 1, length_start + 16))
        data_start == length_start + 16
        data_end == data_start + LengthTimes8(length_bytes, promotion)
        data_bits == SubSeq(bits, data_start + 1, data_end)
        stop_start == data_end
        stop_end == stop_start + Len(stop_seq)
        padded == IF Len(data_bits) % 8 # 0
                  THEN data_bits \o Zeros(8 - (Len(data_bits) % 8)) ELSE data_bits
        all_bytes == BitsToBytes(padded)
    IN IF start_pos = -1 THEN NoPacket("Start sequence not found")
       ELSE IF length_start + 16 > Len(bits) THEN NoPacket("Not enough bits for length field")
       ELSE IF data_end > Len(bits) THEN NoPacket("Not enough bits for data")
       ELSE IF stop_end > Len(bits) THEN NoPacket("Not enough bits for stop sequence")
       ELSE IF SubSeq(bits, stop_start + 1, stop_end) # stop_seq
            THEN NoPacket("Stop sequence mismatch")
       ELSE [kind |-> "packet", why |-> "",
             bytes |-> SubSeq(all_bytes, 1, IF length_bytes < Len(all_bytes)
                                            THEN length_bytes ELSE Len(all_bytes))]

(***************************************************************************)
(* The sample-mode link without impairment: bits, or a framed packet, are  *)
(* modulated, the unaltered symbols are demodulated by hard decision, and  *)
(* the frame is extracted.                                                 *)
(***************************************************************************)
FramePayloadBytes == {0, 53, 72, 172, 255}

PhyInit ==
    \E promotion \in {"legacy", "nep50"} :
        phy = [phase |-> "idle", promotion |-> promotion, framed |-> FALSE,
               payload |-> <<>>, dtype |-> "uint8", scheme |-> "bpsk", bits |-> <<>>,
               symbols |-> <<>>, demod |-> <<>>, packet |-> NoResult]

othersOfPhy == <<codec, crypto, fec, rx, bridge, simMain, pcMain, rcv, emu, collector,
                 net, chan>>

\* a caller modulates an array of bits
PhyModulate ==
    \E b \in SeqsUpTo({0, 1}, MaxBits), dtype \in Dtypes, M \in Schemes :
        /\ phy.phase = "idle"
        /\ phy' = [phy EXCEPT !.phase = "modulated", !.framed = FALSE, !.dtype = dtype,
                              !.scheme = M, !.bits = b,
                              !.symbols = bits_to_symbols(b, dtype, M)]
        /\ UNCHANGED othersOfPhy

\* the transmitter frames a packet (np.unpackbits yields uint8) and modulates it
PhyTransmitFrame ==
    \E p \in SeqsUpTo(FramePayloadBytes, MaxFrameBytes), M \in Schemes :
        /\ phy.phase = "idle"
        /\ phy' = [phy EXCEPT !.phase = "modulated", !.framed = TRUE, !.payload = p,
                              !.dtype = "uint8", !.scheme = M, !.bits = packet_to_bits(p),
                              !.symbols = bits_to_symbols(packet_to_bits(p), "uint8", M)]
        /\ UNCHANGED othersOfPhy

\* the receiver demodulates the unaltered symbols
PhyDemodulate ==
    /\ phy.phase = "modulated"
    /\ phy' = [phy EXCEPT !.phase = "demodulated",
                          !.demod = symbols_to_bits(phy.symbols, phy.scheme)]
    /\ UNCHANGED othersOfPhy

\* the receiver extracts the packet from the demodulated bits
PhyExtract ==
    /\ phy.phase = "demodulated"
    /\ phy.framed
    /\ phy' = [phy EXCEPT !.phase = "extracted",
                          !.packet = bits_to_packet(phy.demod, phy.promotion)]
    /\ UNCHANGED othersOfPhy

CeilDiv(a, b) == (a + b - 1) \div b

\* the labels of a scheme: every group of bits_per_symbol bits
Labels(M) == [1..bits_per_symbol(M) -> {0, 1}]

\* the points the modulator emits for the labels of a scheme
Constellation(dtype, M) == {bits_to_symbols(l, dtype, M)[1] : l \in Labels(M)}

\* the label of the k-th symbol: its group of bits, zero padded at the end
LabelAt(bits, k, M) ==
    LET bps == bits_per_symbol(M)
    IN [i \in 1..bps |-> IF (k - 1) * bps + i <= Len(bits)
                         THEN bits[(k - 1) * bps + i] ELSE 0]

HammingDistance(a, b) == Cardinality({i \in 1..Len(a) : a[i] # b[i]})

Between(x, lo, hi) == (lo < x /\ x < hi) \/ (hi < x /\ x < lo)

\* p and q are nearest neighbours along one axis: they agree in the other
\* coordinate and no point of the constellation lies between them
NearestOnAxis(p, q, axis, points) ==
    LET other == 3 - axis
    IN /\ p[other] = q[other]
       /\ p[axis] # q[axis]
       /\ \A c \in points : ~(c[other] = p[other] /\ Between(c[axis], p[axis], q[axis]))

\* the symbols of a modulated array against the constellation: different
\* labels sit on different points, and nearest neighbours along an axis
\* carry labels one bit apart
GrayLabelled(bits, symbols, points, M) ==
    /\ \A k \in 1..Len(symbols) : symbols[k] \in points
    /\ \A j, k \in 1..Len(symbols) :
           LET a == LabelAt(bits, j, M)
               b == LabelAt(bits, k, M)
           IN /\ a # b => symbols[j] # symbols[k]
              /\ \A axis \in {1, 2} :
                     NearestOnAxis(symbols[j], symbols[k], axis, points)
                         => HammingDistance(a, b) = 1

\* C26: in the 16-QAM mapping used by qam16_modulate and qam16_demodulate the
\* 16 four-bit labels are pairwise distinct and two constellation points
\* that are nearest neighbours along the I axis or along the Q axis carry
\* labels that differ in exactly one bit; the same holds for the four points
\* that qpsk_modulate produces.
C26_GrayLabelling ==
    (phy.phase = "modulated" /\ phy.scheme \in {"qpsk", "16qam"}) =>
        /\ \A dtype \in Dtypes :
               Cardinality(Constellation(dtype, phy.scheme))
                   = Cardinality(Labels(phy.scheme))
        /\ \E dtype \in Dtypes :
               GrayLabelled(phy.bits, phy.symbols, Constellation(dtype, phy.scheme),
                            phy.scheme)
        /\ phy.scheme = "16qam" =>
               /\ \A i, j \in 0..15 : i # j => qam16_gray_map(i) # qam16_gray_map(j)
               /\ \A i \in 0..15 : /\ qam16_gray_map(i) \in 0..15
                                   /\ qam16_gray_demap(qam16_gray_map(i)) = i

\* two 16-QAM symbols next to each other on the Q axis, labels 0001 and 0011
C26_Witness ==
    /\ phy.phase = "modulated"
    /\ phy.scheme = "16qam"
    /\ phy.bits = <<0, 0, 0, 1, 0, 0, 1, 1>>
    /\ phy.symbols = <<<<-3, -1>>, <<-3, 1>>>>

\* C6: hard demodulation of modulate(b) yields b followed only by the zero
\* padding bits; modulate emits ceil(|b| / bits_per_symbol) symbols and the
\* demodulator bits_per_symbol bits per symbol.
C6_ModulationRoundTrip ==
    (phy.phase = "demodulated" /\ ~phy.framed) =>
        LET bps == bits_per_symbol(phy.scheme)
        IN /\ Len(phy.symbols) = CeilDiv(Len(phy.bits), bps)
           /\ Len(phy.demod) = bps * Len(phy.symbols)
           /\ phy.demod = phy.bits \o Zeros(Len(phy.demod) - Len(phy.bits))

\* C5: framing a non-empty payload with packet_to_bits, modulating, hard
\* demodulating the unaltered symbols and running bits_to_packet returns
\* exactly the payload, for bpsk, qpsk and 16qam.
C5_EndToEndBitExact ==
    (phy.phase = "extracted" /\ phy.payload # <<>>) =>
        (phy.packet.kind = "packet" /\ phy.packet.bytes = phy.payload)

\* bit streams handed to bits_to_packet: four prefix bytes followed by a
\* frame, and loose bytes.  172 is the start pattern, 83 its complement, 173
\* the start pattern with its last bit altered, 53 the stop pattern, and
\* 32, 0 a length field of 8192.
SyncPrefixBytes == {0, 83, 172, 255}
SyncPayloadBytes == {0, 172}
SyncLooseBytes == {0, 32, 53, 83, 172, 173}

SyncPrefixes == {<<a, b, c, d>> : a \in SyncPrefixBytes, b \in SyncPrefixBytes,
                                  c \in SyncPrefixBytes, d \in SyncPrefixBytes}

SyncStreams ==
    {BytesToBits(pre) \o packet_to_bits(p) :
         pre \in SyncPrefixes, p \in SeqsUpTo(SyncPayloadBytes, MaxSyncPayload)}
    \cup {BytesToBits(loose) : loose \in SeqsUpTo(SyncLooseBytes, MaxSyncBytes)}

\* a caller hands a demodulated bit stream to bits_to_packet
PhyBitsToPacket ==
    \E stream \in SyncStreams :
        /\ phy.phase = "idle"
        /\ phy' = [phy EXCEPT !.phase = "synced", !.demod = stream,
                              !.packet = bits_to_packet(stream, phy.promotion)]
        /\ UNCHANGED othersOfPhy

\* the length field of a stream that carries 32 prefix bits, the start
\* pattern and a length field
LengthAfterPrefix(bits) == BitsToNat(SubSeq(bits, 41, 56))

\* 32 prefix bits, the start pattern, a length L, 8 * L payload bits and the
\* stop pattern
FrameAfterPrefix(bits) ==
    /\ Len(bits) >= 64
    /\ SubSeq(bits, 33, 40) = start_seq
    /\ Len(bits) = 64 + 8 * LengthAfterPrefix(bits)
    /\ SubSeq(bits, Len(bits) - 7, Len(bits)) = stop_seq

\* C16: for every bit stream made of an arbitrary 32-bit prefix followed by
\* the start pattern, a 16-bit big-endian length L, 8 * L payload bits and
\* the stop pattern, bits_to_packet returns exactly the L payload bytes that
\* follow the length field.
C16_SyncPatternFound ==
    (phy.phase = "synced" /\ FrameAfterPrefix(phy.demod)) =>
        /\ phy.packet.kind = "packet"
        /\ phy.packet.bytes =
               BitsToBytes(SubSeq(phy.demod, 57, 56 + 8 * LengthAfterPrefix(phy.demod)))

\* the start pattern occurs at some position of the stream
StartOccurs(bits) ==
    \E k \in 0..(Len(bits) - Len(start_seq)) :
        SubSeq(bits, k + 1, k + Len(start_seq)) = start_seq

\* C17: for every bit stream in which the start pattern occurs at no
\* position, _find_sync_pattern returns -1 and bits_to_packet returns no
\* packet.
C17_SyncMissing ==
    (phy.phase = "synced" /\ ~StartOccurs(phy.demod)) =>
        /\ find_sync_pattern(phy.demod, start_seq) = -1
        /\ phy.packet = NoPacket("Start sequence not found")

\* C18: once a start index is chosen, if the stream lacks the 16 length
\* bits, the 8 * L payload bits or the 8 stop bits, or the 8 bits after the
\* payload differ from the stop pattern, no packet and no payload byte is
\* returned, whatever other start candidates the stream holds; a payload is
\* returned only when the stop pattern follows it.
C18_LinearNoRetry ==
    phy.phase = "synced" =>
        LET bits == phy.demod
            start_idx == find_sync_pattern(bits, start_seq)
            lacksLength == start_idx + 24 > Len(bits)
            L == BitsToNat(SubSeq(bits, start_idx + 9, start_idx + 24))
            stop_from == start_idx + 24 + 8 * L
            aborted == \/ lacksLength
                       \/ stop_from > Len(bits)
                       \/ stop_from + 8 > Len(bits)
                       \/ SubSeq(bits, stop_from + 1, stop_from + 8) # stop_seq
        IN start_idx # -1 =>
               /\ aborted => (phy.packet.kind = "None" /\ phy.packet.bytes = <<>>)
               /\ phy.packet.kind = "packet" => ~aborted

(***************************************************************************)
(* simurf/receiver.py: the receiver object, its counters and get_stats.    *)
(* The matched filter and the timing recovery of signal_to_symbols turn    *)
(* the received samples into symbols or into None; a call of receive is    *)
(* given that outcome.  A received symbol is written as the constellation  *)
(* point on its side of the decision boundaries.                           *)
(***************************************************************************)
RECURSIVE Gcd(_, _)
Gcd(a, b) == IF b = 0 THEN a ELSE Gcd(b, a % b)

\* the float n / d, written as the fraction in lowest terms
Ratio(n, d) == <<n \div Gcd(n, d), d \div Gcd(n, d)>>

\* WirelessReceiver.__init__
WirelessReceiver(modulation) ==
    [modulation |-> modulation, packets_received |-> 0, packets_decoded |-> 0,
     bytes_received |-> 0, bit_errors |-> 0]

\* WirelessReceiver.get_stats
get_stats(r) ==
    LET total_bits == r.bytes_received * 8
    IN [packets_received |-> r.packets_received,
        packets_decoded |-> r.packets_decoded,
        bytes_received |-> r.bytes_received,
        packet_error_rate |-> IF r.packets_received > 0
                              THEN Ratio(r.packets_received - r.packets_decoded,
                                         r.packets_received)
                              ELSE Ratio(0, 1),
        bit_error_rate |-> IF total_bits > 0 THEN Ratio(r.bit_errors, total_bits)
                           ELSE Ratio(0, 1),
        bit_errors |-> r.bit_errors,
        modulation |-> r.modulation]

\* WirelessReceiver.estimate_ber: [bit_errors, ber]
estimate_ber(known_bits, received_bits) ==
    LET min_len == IF Len(known_bits) < Len(received_bits)
                   THEN Len(known_bits) ELSE Len(received_bits)
        bit_errors == Cardinality({i \in 1..min_len : known_bits[i] # received_bits[i]})
    IN [bit_errors |-> bit_errors,
        ber |-> IF min_len > 0 THEN Ratio(bit_errors, min_len) ELSE Ratio(1, 1)]

\* WirelessReceiver.receive after signal_to_symbols: the returned packet or None
receive(front_end, modulation, promotion) ==
    IF front_end.kind = "None" THEN NoPacket("No symbols recovered from signal")
    ELSE IF modulation \notin Schemes THEN NoPacket("Demodulation error")
    ELSE bits_to_packet(symbols_to_bits(front_end.symbols, modulation), promotion)

RxModulations == Schemes \cup {"8psk"}
RxPayloadBytes == {72}
RxPayloads == SeqsUpTo(RxPayloadBytes, MaxRxPayload) \ {<<>>}

\* the frame with its last bits missing: cut inside and after the start
\* sequence, inside and after the length field, at and inside the stop sequence
Truncations(frame) ==
    {SubSeq(frame, 1, n) :
        n \in {0, 7, 8, 23, 24, Len(frame) - 8, Len(frame) - 1} \cap 0..(Len(frame) - 1)}

\* the frame with one bit inverted: in the start sequence, at either end of
\* the length field, in the data, in the stop sequence
BitFlips(frame) ==
    {[frame EXCEPT ![i] = 1 - @] : i \in {1, 9, 24, 25, Len(frame)} \cap 1..Len(frame)}

\* what the demodulator is to decide: whole frames, frames cut short and
\* frames with one wrong bit
RxBitStreams ==
    UNION {{packet_to_bits(p)} \cup Truncations(packet_to_bits(p))
                               \cup BitFlips(packet_to_bits(p)) : p \in RxPayloads}

\* the symbols of those bit strings as the receiver's scheme places them
RxSymbols(modulation) ==
    {[kind |-> "symbols",
      symbols |-> bits_to_symbols(b, "int64",
                                  IF modulation \in Schemes THEN modulation ELSE "bpsk")] :
        b \in RxBitStreams} \cup {[kind |-> "None", symbols |-> <<>>]}

NoCall == [call |-> "none", returned |-> NoResult]

RxInit ==
    rx = [obj |-> WirelessReceiver("qpsk"), before |-> get_stats(WirelessReceiver("qpsk")),
          last |-> NoCall]

othersOfRx == <<codec, crypto, fec, phy, bridge, simMain, pcMain, rcv, emu, collector,
                net, chan>>

\* WirelessReceiver(modulation=M): a new receiver replaces the old one
RxNew ==
    \E M \in RxModulations :
        /\ rx' = [obj |-> WirelessReceiver(M), before |-> get_stats(WirelessReceiver(M)),
                  last |-> NoCall]
        /\ UNCHANGED othersOfRx

\* receiver.receive(rx_signal)
RxReceive ==
    \E front_end \in RxSymbols(rx.obj.modulation) :
        LET packet_data == receive(front_end, rx.obj.modulation, phy.promotion)
        IN /\ packet_data.kind = "packet" => rx.obj.packets_received < MaxRxPackets
           /\ rx' = [obj |-> IF packet_data.kind = "packet"
                             THEN [rx.obj EXCEPT
                                      !.packets_received = @ + 1,
                                      !.packets_decoded = @ + 1,
                                      !.bytes_received = @ + Len(packet_data.bytes)]
                             ELSE rx.obj,
                     before |-> get_stats(rx.obj),
                     last |-> [call |-> "receive", returned |-> packet_data]]
           /\ UNCHANGED othersOfRx

\* receiver.estimate_ber(known_bits, received_bits)
RxEstimateBer ==
    \E known_bits \in SeqsUpTo({0, 1}, MaxBerBits), received_bits \in SeqsUpTo({0, 1}, MaxBerBits) :
        LET e == estimate_ber(known_bits, received_bits)
        IN /\ rx.obj.bit_errors + e.bit_errors <= MaxBitErrors
           /\ rx' = [obj |-> [rx.obj EXCEPT !.bit_errors = @ + e.bit_errors],
                     before |-> get_stats(rx.obj),
                     last |-> [call |-> "estimate_ber",
                               returned |-> [kind |-> "ber", ber |-> e.ber]]]
           /\ UNCHANGED othersOfRx

\* receiver.reset_stats()
RxResetStats ==
    /\ rx' = [obj |-> [rx.obj EXCEPT !.packets_received = 0, !.packets_decoded = 0,
                                     !.bytes_received = 0, !.bit_errors = 0],
              before |-> get_stats(rx.obj),
              last |-> [call |-> "reset_stats", returned |-> NoResult]]
    /\ UNCHANGED othersOfRx

\* the ways bits_to_packet loses the frame
FrameSyncFailures ==
    {"Start sequence not found", "Not enough bits for length field",
     "Not enough bits for data", "Not enough bits for stop sequence",
     "Stop sequence mismatch"}

\* C9: a call of receive that fails frame synchronisation leaves a trace in
\* the counters: get_stats differs from its value before the call, and the
\* failed packet is counted as received but not as decoded.
C9_NoSilentFailure ==
    (/\ rx.last.call = "receive"
     /\ rx.last.returned.kind = "None"
     /\ rx.last.returned.why \in FrameSyncFailures)
        => /\ get_stats(rx.obj) # rx.before
           /\ rx.obj.packets_received = rx.before.packets_received + 1
           /\ rx.obj.packets_decoded = rx.before.packets_decoded

(***************************************************************************)
(* The drivers: simulator/simurf_matlab_bridge.py, simulator/main.py,      *)
(* python_components/main.py and receiver/receiver_app.py.  Each is a      *)
(* process of its own that binds UDP port 5000, so a host runs one of them *)
(* at a time; a behaviour follows the one that was launched.  Beside the   *)
(* variables of its code a driver keeps the history of its sockets:        *)
(* `ingress` lists what recvfrom returned, `egress` what sendto accepted,  *)
(* each entry with the position in `ingress` of the datagram it answers    *)
(* (`of`) and the number of datagrams received when it left (`at`).        *)
(***************************************************************************)
\* a sender's payload: one encrypted byte under the repetition code, r = 3
SenderPayload == fec_encode(encrypt(DEFAULT_KEY, <<72>>, <<1, 2, 4, 8>>).bytes, 3)

Frame_1 == pack(1, Ip_10_0_0_1, Ip_10_0_0_2, 1000, SenderPayload).bytes
Frame_2 == pack(2, Ip_10_0_0_1, Ip_10_0_0_2, 2000, <<72, 105>>).bytes
TooShort == SubSeq(Frame_1, 1, HEADER_SIZE - 1)
BadLength == [Frame_2 EXCEPT ![22] = 3]
BadCrc == [Frame_2 EXCEPT ![HEADER_SIZE + 1] = XorByte(@, 1)]

\* the datagrams that reach a driver's ingress socket
Datagrams == {Frame_1, Frame_2, TooShort, BadLength, BadCrc}

Last(s) == s[Len(s)]

\* bind((ip, 5000)) succeeds
PortFree ==
    /\ bridge.status = "not started"
    /\ simMain.status = "not started"
    /\ pcMain.status = "not started"
    /\ rcv.status = "not started"

\* ---- simulator/simurf_matlab_bridge.py ----
BridgeInit ==
    bridge = [status |-> "not started", stopped_by |-> "none", packet_count |-> 0,
              ingress |-> <<>>, egress |-> <<>>, metrics_sent |-> 0]

othersOfBridge == <<codec, crypto, fec, phy, rx, simMain, pcMain, rcv, emu, collector,
                    net, chan>>

\* the script up to its main loop: the MATLAB engine starts or sys.exit(1)
BridgeStart ==
    \E engine_ok \in BOOLEAN :
        /\ PortFree
        /\ bridge' = [bridge EXCEPT
                         !.status = IF engine_ok THEN "running" ELSE "stopped",
                         !.stopped_by = IF engine_ok THEN "none" ELSE "sys.exit(1)"]
        /\ UNCHANGED othersOfBridge

\* what eng.rf_emulator(tx_payload) may do
RfOutcomes == {"raises", "clean", "hit", "not bytes"}

rf_emulator(tx_payload, outcome) ==
    CASE outcome = "raises" -> [kind |-> "Exception", bytes |-> <<>>]
      [] outcome = "clean" -> [kind |-> "ok", bytes |-> tx_payload]
      [] outcome = "hit" ->
            [kind |-> "ok",
             bytes |-> IF tx_payload = <<>> THEN <<>>
                       ELSE [tx_payload EXCEPT ![1] = XorByte(@, 255)]]
      [] outcome = "not bytes" -> [kind |-> "not bytes", bytes |-> <<>>]

\* one pass of the main loop
BridgeIterate ==
    \E packet_bytes \in Datagrams, outcome \in RfOutcomes,
       send_ok \in BOOLEAN, metrics_ok \in BOOLEAN :
        LET pkt == unpack(packet_bytes)
            rf == rf_emulator(pkt.payload, outcome)
            new_packet == pack(pkt.seq, pkt.src_ip, pkt.dst_ip, pkt.timestamp_ns, rf.bytes)
            forwarded == pkt.kind = "ok" /\ rf.kind = "ok" /\ new_packet.kind = "ok"
            received == Append(bridge.ingress, packet_bytes)
        IN /\ bridge.status = "running"
           /\ bridge.packet_count < MaxIngress
           /\ bridge' = [bridge EXCEPT
                 !.packet_count = @ + 1,
                 !.ingress = received,
                 !.egress = IF forwarded /\ send_ok
                            THEN Append(@, [of |-> bridge.packet_count + 1,
                                            at |-> Len(received),
                                            data |-> new_packet.bytes])
                            ELSE @,
                 !.metrics_sent = IF forwarded /\ metrics_ok THEN @ + 1 ELSE @]
           /\ UNCHANGED othersOfBridge

\* Ctrl+C while the loop waits in recvfrom: break, then the cleanup
BridgeInterrupt ==
    /\ bridge.status = "running"
    /\ bridge' = [bridge EXCEPT !.status = "stopped", !.stopped_by = "KeyboardInterrupt"]
    /\ UNCHANGED othersOfBridge

\* ---- simulator/main.py ----
SimMainInit ==
    simMain = [status |-> "not started", stopped_by |-> "none", exit_code |-> "none",
               ingress |-> <<>>, egress |-> <<>>]

othersOfSimMain == <<codec, crypto, fec, phy, rx, bridge, pcMain, rcv, emu, collector,
                     net, chan>>

\* main() up to its loop: recv_sock.bind succeeds, or its OSError leaves
\* main() before the try statement and the interpreter exits with 1
SimMainStart ==
    \E bind_ok \in BOOLEAN :
        /\ PortFree
        /\ simMain' = IF bind_ok THEN [simMain EXCEPT !.status = "running"]
                      ELSE [simMain EXCEPT !.status = "stopped", !.stopped_by = "bind",
                                           !.exit_code = "1"]
        /\ UNCHANGED othersOfSimMain

\* int(time.time() * 1e6) when the frame is packed again
SimNow == 3000

\* the process after the finally block: sockets closed, sys.exit(0)
SimMainStopped(m, exc) ==
    [m EXCEPT !.status = "stopped", !.stopped_by = exc, !.exit_code = "0"]

\* one pass of the loop of main(); what the loop does not catch ends it
SimMainIterate ==
    \E data \in Datagrams, simulate_ok \in BOOLEAN, send_ok \in BOOLEAN :
        LET pkt == unpack(data)
            out == pack(pkt.seq, pkt.src_ip, pkt.dst_ip, SimNow, pkt.payload)
            received == [simMain EXCEPT !.ingress = Append(@, data)]
        IN /\ simMain.status = "running"
           /\ Len(simMain.ingress) < MaxIngress
           /\ simMain' =
                 IF pkt.kind # "ok" THEN SimMainStopped(received, pkt.kind)
                 ELSE IF ~simulate_ok THEN SimMainStopped(received, "Exception")
                 ELSE IF out.kind # "ok" THEN SimMainStopped(received, out.kind)
                 ELSE IF ~send_ok THEN SimMainStopped(received, "OSError")
                 ELSE [received EXCEPT
                          !.egress = Append(@, [of |-> Len(received.ingress),
                                                at |-> Len(received.ingress),
                                                data |-> out.bytes])]
           /\ UNCHANGED othersOfSimMain

SimMainInterrupt ==
    /\ simMain.status = "running"
    /\ simMain' = SimMainStopped(simMain, "KeyboardInterrupt")
    /\ UNCHANGED othersOfSimMain

\* ---- python_components/main.py; times are in milliseconds ----
packet_delay_ms == 10
packet_jitter_ms == 5
RecvTimeoutMs == 100

\* the address recv_sock is bound to, and the address main() forwards to
PcListenAddr == <<"127.0.0.1", "5000">>
receiver_addr == <<"127.0.0.1", "5000">>

\* (random.random() - 0.5) * 2 * packet_jitter_ms lies in [-5, 5): the two
\* ends of the range, in whole milliseconds
Jitters == {-packet_jitter_ms, packet_jitter_ms - 1}

\* how long after the previous pass time.time() is read again, in
\* milliseconds: at once, or a delay later
Lags == {0, 10}

\* PacketManipulator.calculate_delay
calculate_delay(jitter) ==
    IF packet_delay_ms + jitter > 0 THEN packet_delay_ms + jitter ELSE 0

\* a faulty process_delayed_packets that leaves the packets it hands out in
\* the list
process_delayed_packets_KeepsSent(delayed_packets, current_time) ==
    [packets_to_send |-> SelectSeq(delayed_packets, LAMBDA e : current_time >= e.send_time),
     remaining_packets |-> delayed_packets]

\* PacketManipulator.process_delayed_packets
process_delayed_packets(delayed_packets, current_time) ==
    [packets_to_send |-> SelectSeq(delayed_packets, LAMBDA e : current_time >= e.send_time),
     remaining_packets |-> SelectSeq(delayed_packets, LAMBDA e : ~(current_time >= e.send_time))]

PcMainInit ==
    pcMain = [status |-> "not started", stopped_by |-> "none", clock |-> 0,
              inbox |-> <<>>, delayed_packets |-> <<>>, pkt_count |-> 0,
              dropped_count |-> 0, ingress |-> <<>>, egress |-> <<>>]

othersOfPcMain == <<codec, crypto, fec, phy, rx, bridge, simMain, rcv, emu, collector,
                    net, chan>>

PcMainStart ==
    /\ PortFree
    /\ pcMain' = [pcMain EXCEPT !.status = "running"]
    /\ UNCHANGED othersOfPcMain

\* datagrams the socket can still take before the run is cut off
Room(m) == MaxForwarded - Len(m.ingress) - Len(m.inbox)

\* a sender's datagram reaches recv_sock; the sender alternates its two frames
PcMainArrive ==
    LET data == IF (Len(pcMain.ingress) + Len(pcMain.inbox)) % 2 = 0 THEN Frame_1 ELSE Frame_2 IN
        /\ pcMain.status = "running"
        /\ Room(pcMain) > 0
        /\ pcMain' = [pcMain EXCEPT !.inbox = Append(@, data)]
        /\ UNCHANGED othersOfPcMain

\* send_sock.sendto for every ready packet, in the order of the list; the
\* datagrams go to receiver_addr, which is this process's own socket
SendReady(m, ready_packets, current_time, looped) ==
    LET leaving == [k \in 1..Len(ready_packets) |->
                       [of |-> ready_packets[k].of, at |-> Len(m.ingress),
                        time |-> current_time, send_time |-> ready_packets[k].send_time,
                        data |-> ready_packets[k].packet]]
        back == IF looped /\ receiver_addr = PcListenAddr
                THEN [k \in 1..(IF Room(m) < Len(ready_packets)
                                THEN Room(m) ELSE Len(ready_packets)) |->
                         ready_packets[k].packet]
                ELSE <<>>
    IN [m EXCEPT !.egress = @ \o leaving, !.inbox = @ \o back]

\* one pass of the loop of main()
PcMainIterate ==
    \E lag \in Lags, send_ok \in BOOLEAN, looped \in BOOLEAN, drop \in BOOLEAN,
       simulate_ok \in BOOLEAN, jitter \in Jitters :
        LET current_time == pcMain.clock + lag
            due == process_delayed_packets(pcMain.delayed_packets, current_time)
            pruned == [pcMain EXCEPT !.clock = current_time,
                                     !.delayed_packets = due.remaining_packets]
            sent == SendReady(pruned, due.packets_to_send, current_time, looped)
            data == Head(sent.inbox)
            counted == [sent EXCEPT !.inbox = Tail(@), !.pkt_count = @ + 1,
                                    !.ingress = Append(@, [data |-> data,
                                                           time |-> current_time])]
            delay == calculate_delay(jitter)
            send_time == current_time + delay
        IN /\ pcMain.status = "running"
           /\ current_time <= MaxClock
           /\ pcMain' =
                 IF due.packets_to_send # <<>> /\ ~send_ok THEN pruned
                 ELSE IF sent.inbox = <<>>
                      THEN [sent EXCEPT !.clock = current_time + RecvTimeoutMs]
                 ELSE IF drop THEN [counted EXCEPT !.dropped_count = @ + 1]
                 ELSE IF ~simulate_ok THEN counted
                 ELSE IF delay > 0
                      THEN [counted EXCEPT
                               !.delayed_packets =
                                   Append(@, [send_time |-> send_time, packet |-> data,
                                              of |-> counted.pkt_count])]
                 ELSE SendReady(counted,
                                <<[send_time |-> send_time, packet |-> data,
                                   of |-> counted.pkt_count]>>,
                                current_time, looped)
           /\ UNCHANGED othersOfPcMain

PcMainInterrupt ==
    /\ pcMain.status = "running"
    /\ pcMain' = [pcMain EXCEPT !.status = "stopped", !.stopped_by = "KeyboardInterrupt"]
    /\ UNCHANGED othersOfPcMain

\* ---- shared/metrics.py ----
\* MetricsCollector.__init__: deque(maxlen=window_size) and the two totals
MetricsCollector(window_size) ==
    [window_size |-> window_size, packets |-> <<>>, total_packets |-> 0,
     total_errors |-> 0]

\* a faulty add_packet whose window is never trimmed
add_packet_Unbounded(mc, metrics) ==
    [mc EXCEPT
        !.packets = Append(@, metrics),
        !.total_packets = @ + 1,
        !.total_errors = IF \E e \in metrics.bit_errors : e > 0 THEN @ + 1 ELSE @]

\* MetricsCollector.add_packet: append to the deque, which discards from the
\* left beyond maxlen; bit_errors is {} for None and {n} for n
add_packet(mc, metrics) ==
    LET all == Append(mc.packets, metrics)
        W == mc.window_size
    IN [mc EXCEPT
           !.packets = IF Len(all) > W THEN SubSeq(all, Len(all) - W + 1, Len(all))
                                       ELSE all,
           !.total_packets = @ + 1,
           !.total_errors = IF \E e \in metrics.bit_errors : e > 0 THEN @ + 1 ELSE @]

\* MetricsCollector.get_summary: the two counts of the summary
get_summary_counts(mc) ==
    IF mc.packets = <<>>
    THEN [total_packets |-> 0, window_packets |-> 0]
    ELSE [total_packets |-> mc.total_packets,
          window_packets |-> Len(mc.packets)]

\* MetricsCollector.reset
reset(mc) ==
    [mc EXCEPT !.packets = <<>>, !.total_packets = 0, !.total_errors = 0]

\* ---- receiver/receiver_app.py ----
\* SimURFReceiver.__init__ with MetricsCollector and PerformanceMonitor
SimURFReceiver(use_fec, fec_repetition) ==
    [status |-> "running", stopped_by |-> "none", use_fec |-> use_fec,
     fec_repetition |-> fec_repetition, packet_count |-> 0, success_count |-> 0,
     crc_errors |-> 0, decode_errors |-> 0,
     metrics_collector |-> MetricsCollector(1000),
     perf_monitor |-> [packet_count |-> 0, byte_count |-> 0],
     ingress |-> <<>>, returned |-> {},
     config |-> "ok", metrics_file |-> FALSE, sock |-> "open", shutdown |-> <<>>,
     exit_code |-> "none"]

RcvInit ==
    rcv = [SimURFReceiver(TRUE, 3) EXCEPT !.status = "not started", !.sock = "none"]

othersOfRcv == <<codec, crypto, fec, phy, rx, bridge, simMain, pcMain, emu, collector,
                 net, chan>>

\* --fec-repetition values the command line may carry
RepetitionArguments == {0, 3}

\* what SimURFConfig().load_matlab_channel_config() finds
ConfigFiles == {"ok", "missing", "malformed"}

\* main(): the configuration is loaded (a ConfigurationError is logged and the
\* defaults are used), the receiver is built from the command line, its
\* socket is bound and run() begins; an OSError of bind leaves main() and the
\* interpreter exits with 1
RcvStart ==
    \E config \in ConfigFiles, no_fec \in BOOLEAN, fec_repetition \in RepetitionArguments,
       metrics_file \in BOOLEAN, bind_ok \in BOOLEAN :
        LET built == [SimURFReceiver(~no_fec, fec_repetition) EXCEPT
                         !.config = config, !.metrics_file = metrics_file]
        IN /\ PortFree
           /\ emu.main = "not started"
           /\ rcv' = IF bind_ok THEN built
                     ELSE [built EXCEPT !.status = "stopped", !.stopped_by = "bind",
                                        !.sock = "unbound", !.exit_code = "1"]
           /\ UNCHANGED othersOfRcv

\* fec_utils.fec_decode_with_stats: a codec is built and decodes
fec_decode_with_stats(data, repeat) ==
    IF FECCodec(repeat).kind # "ok"
    THEN [kind |-> "ValueError", bytes |-> <<>>, corrections |-> 0]
    ELSE fec_decode(data, repeat)

\* PerformanceMonitor.update
update(monitor, packet_size, interval_elapsed) ==
    IF interval_elapsed THEN [packet_count |-> 0, byte_count |-> 0]
    ELSE [packet_count |-> monitor.packet_count + 1,
          byte_count |-> monitor.byte_count + packet_size]

\* a faulty process_packet that counts the success before the payload is decoded
process_packet_CountsEarly(r, data, interval_elapsed) ==
    LET counted == [r EXCEPT !.packet_count = @ + 1]
        pkt == unpack(data)
        fec_out == IF r.use_fec THEN fec_decode_with_stats(pkt.payload, r.fec_repetition)
                   ELSE [kind |-> "ok", bytes |-> pkt.payload, corrections |-> 0]
        plaintext == decrypt(DEFAULT_KEY, fec_out.bytes)
        metrics == [seq |-> pkt.seq, timestamp_ns |-> pkt.timestamp_ns,
                    size_bytes |-> Len(data),
                    bit_errors |-> {},
                    fec_corrections |-> IF r.use_fec THEN {fec_out.corrections} ELSE {}]
    IN IF pkt.kind = "ValueError"
       THEN [counted EXCEPT !.crc_errors = @ + 1, !.returned = {FALSE}]
       ELSE IF fec_out.kind = "ValueError" \/ plaintext.kind = "ValueError"
       THEN [counted EXCEPT !.success_count = @ + 1, !.crc_errors = @ + 1,
                            !.returned = {FALSE}]
       ELSE [counted EXCEPT
                !.metrics_collector = add_packet(@, metrics),
                !.perf_monitor = update(@, Len(data), interval_elapsed),
                !.success_count = @ + 1,
                !.returned = {TRUE}]

\* SimURFReceiver.process_packet
process_packet(r, data, interval_elapsed) ==
    LET counted == [r EXCEPT !.packet_count = @ + 1]
        pkt == unpack(data)
        fec_out == IF r.use_fec THEN fec_decode_with_stats(pkt.payload, r.fec_repetition)
                   ELSE [kind |-> "ok", bytes |-> pkt.payload, corrections |-> 0]
        plaintext == decrypt(DEFAULT_KEY, fec_out.bytes)
        metrics == [seq |-> pkt.seq, timestamp_ns |-> pkt.timestamp_ns,
                    size_bytes |-> Len(data),
                    bit_errors |-> {},
                    fec_corrections |-> IF r.use_fec THEN {fec_out.corrections} ELSE {}]
    IN IF pkt.kind = "ValueError" \/ fec_out.kind = "ValueError"
          \/ plaintext.kind = "ValueError"
       THEN [counted EXCEPT !.crc_errors = @ + 1, !.returned = {FALSE}]
       ELSE [counted EXCEPT
                !.metrics_collector = add_packet(@, metrics),
                !.perf_monitor = update(@, Len(data), interval_elapsed),
                !.success_count = @ + 1,
                !.returned = {TRUE}]

\* one pass of the loop of run(): recvfrom, then process_packet
RcvIterate ==
    \E data \in Datagrams, interval_elapsed \in BOOLEAN :
        /\ rcv.status = "running"
        /\ rcv.packet_count < MaxIngress
        /\ rcv' = [process_packet(rcv, data, interval_elapsed) EXCEPT
                      !.ingress = Append(@, data)]
        /\ UNCHANGED othersOfRcv

\* run() after KeyboardInterrupt: _print_summary logs the statistics and
\* exports the CSV when a metrics file was named (export_csv returns at once
\* when the window is empty; an OSError of open() leaves run() through the
\* finally block and main() returns 1), then close() closes the socket
Shutdown(r, export_ok) ==
    LET exports == r.metrics_file
        failed == exports /\ r.metrics_collector.packets # <<>> /\ ~export_ok
    IN [r EXCEPT !.status = "stopped", !.stopped_by = "KeyboardInterrupt",
                 !.shutdown = <<"summary">>
                              \o (IF exports
                                  THEN <<IF failed THEN "export_csv failed" ELSE "export_csv">>
                                  ELSE <<>>)
                              \o <<"close">>,
                 !.sock = "closed",
                 !.exit_code = IF failed THEN "1" ELSE "0"]

\* Ctrl+C while run() waits in recvfrom
RcvInterrupt ==
    \E export_ok \in BOOLEAN :
        /\ rcv.status = "running"
        /\ rcv' = Shutdown(rcv, export_ok)
        /\ UNCHANGED othersOfRcv

\* Ctrl+C while process_packet works on a datagram: the packet is counted at
\* entry, no handler of process_packet catches KeyboardInterrupt
RcvInterruptProcessing ==
    \E data \in Datagrams, export_ok \in BOOLEAN :
        /\ rcv.status = "running"
        /\ rcv.packet_count < MaxIngress
        /\ rcv' = Shutdown([rcv EXCEPT !.packet_count = @ + 1,
                                       !.ingress = Append(@, data)], export_ok)
        /\ UNCHANGED othersOfRcv

(***************************************************************************)
(* shared/metrics.py: a MetricsCollector in the hands of a caller.  `obj`  *)
(* is the collector, `added` lists the records passed to add_packet since  *)
(* construction or the last reset, `summary` is what the last call of      *)
(* get_summary returned.                                                   *)
(***************************************************************************)
CollectorInit ==
    collector = [phase |-> "none", obj |-> MetricsCollector(0), added |-> <<>>,
                 summary |-> NoResult, resets |-> 0]

othersOfCollector == <<codec, crypto, fec, phy, rx, bridge, simMain, pcMain, rcv, emu,
                       net, chan>>

\* bit_errors of a record: None, 0 or a positive count
BitErrorValues == {{}, {0}, {2}}

\* MetricsCollector(window_size=W)
CollectorNew ==
    \E W \in 0..MaxWindow :
        /\ collector.phase = "none"
        /\ collector' = [collector EXCEPT !.phase = "built", !.obj = MetricsCollector(W)]
        /\ UNCHANGED othersOfCollector

\* collector.add_packet(PacketMetrics(seq=..., bit_errors=...))
CollectorAdd ==
    \E be \in BitErrorValues :
        LET metrics == [seq |-> collector.obj.total_packets, bit_errors |-> be]
        IN /\ collector.phase = "built"
           /\ Len(collector.added) < MaxAdds
           /\ collector' = [collector EXCEPT !.obj = add_packet(@, metrics),
                                             !.added = Append(@, metrics),
                                             !.summary = NoResult]
           /\ UNCHANGED othersOfCollector

\* collector.get_summary()
CollectorSummary ==
    /\ collector.phase = "built"
    /\ collector.summary = NoResult
    /\ collector' = [collector EXCEPT !.summary = get_summary_counts(collector.obj)]
    /\ UNCHANGED othersOfCollector

\* collector.reset()
CollectorReset ==
    /\ collector.phase = "built"
    /\ collector.added # <<>>
    /\ collector.resets < MaxResets
    /\ collector' = [collector EXCEPT !.obj = reset(@), !.added = <<>>,
                                      !.summary = NoResult, !.resets = @ + 1]
    /\ UNCHANGED othersOfCollector

Min(a, b) == IF a < b THEN a ELSE b

\* C22: after N calls of add_packet on a collector with window size W >= 1,
\* total_packets = N, the window holds exactly the most recent min(N, W)
\* records in arrival order, get_summary reports total_packets = N and
\* window_packets = min(N, W), and total_errors never exceeds total_packets.
C22_RollingWindow ==
    (collector.phase = "built" /\ collector.obj.window_size >= 1) =>
        LET N == Len(collector.added)
            W == collector.obj.window_size
        IN /\ collector.obj.total_packets = N
           /\ collector.obj.packets = SubSeq(collector.added, N - Min(N, W) + 1, N)
           /\ collector.summary # NoResult
                  => collector.summary = [total_packets |-> N, window_packets |-> Min(N, W)]
           /\ collector.obj.total_errors =
                  Cardinality({k \in 1..N : \E e \in collector.added[k].bit_errors : e > 0})
           /\ collector.obj.total_errors <= collector.obj.total_packets

\* three records into a window of two, one of them with bit errors
C22_Witness ==
    /\ collector.phase = "built"
    /\ collector.obj.window_size = 2
    /\ Len(collector.added) = 3
    /\ collector.obj.packets = SubSeq(collector.added, 2, 3)
    /\ collector.obj.total_errors = 1
    /\ collector.summary = [total_packets |-> 3, window_packets |-> 2]

(***************************************************************************)
(* simurf/channel.py.  A signal is written as its number of samples; the   *)
(* noise and the fading coefficients are random and leave the length       *)
(* alone.  delay_spread is written in microseconds and the sample rate is  *)
(* the default of apply_channel, 1e6, so that a delay spread of d gives    *)
(* int(d * 5) taps.  `last` records the latest call of apply_channel.      *)
(***************************************************************************)
\* the default of the parameter delay_spread, 1e-6 s
default_delay_spread_us == 1

\* ChannelModel.__init__
ChannelModel(channel_type, delay_spread_us) ==
    [channel_type |-> channel_type, delay_spread_us |-> delay_spread_us,
     signals_processed |-> 0]

\* np.convolve(signal, h, mode='same'): max(len(signal), len(h)) samples, or
\* ValueError when h is empty
apply_multipath(n, delay_spread_us) ==
    LET max_delay_samples == delay_spread_us * 5
    IN IF max_delay_samples = 0 THEN [kind |-> "ValueError", n |-> 0]
       ELSE [kind |-> "ok", n |-> IF n > max_delay_samples THEN n ELSE max_delay_samples]

\* ChannelModel.apply_channel on a signal of n samples: the stages that ran,
\* the channel afterwards and the result
apply_channel(c, n) ==
    LET fades == c.channel_type \in {"rayleigh", "rician"}
        spreads == c.delay_spread_us > 0
        multipath == IF spreads THEN apply_multipath(n, c.delay_spread_us)
                     ELSE [kind |-> "ok", n |-> n]
        before_noise == (IF fades THEN <<"fading">> ELSE <<>>)
                        \o (IF spreads THEN <<"multipath">> ELSE <<>>)
    IN IF multipath.kind # "ok"
       THEN [obj |-> c, stages |-> before_noise, kind |-> multipath.kind,
             input |-> n, output |-> 0, input_after |-> n]
       ELSE [obj |-> [c EXCEPT !.signals_processed = @ + 1],
             stages |-> Append(before_noise, "awgn"), kind |-> "ok",
             input |-> n, output |-> multipath.n, input_after |-> n]

ChanInit ==
    chan = [phase |-> "none", defaults |-> FALSE, obj |-> ChannelModel("awgn", 0),
            before |-> 0, last |-> NoResult]

othersOfChan == <<codec, crypto, fec, phy, rx, bridge, simMain, pcMain, rcv, emu,
                  collector, net>>

ChannelTypes == {"awgn", "rayleigh", "rician"}

\* delay_spread arguments a caller passes
DelaySpreadArguments == {0, 2}

\* ChannelModel(channel_type=..., snr_db=...), as the emulator builds it
ChanNewDefault ==
    \E channel_type \in ChannelTypes :
        /\ chan.phase = "none"
        /\ chan' = [chan EXCEPT !.phase = "built", !.defaults = TRUE,
                                !.obj = ChannelModel(channel_type, default_delay_spread_us)]
        /\ UNCHANGED othersOfChan

\* ChannelModel(channel_type=..., delay_spread=...)
ChanNew ==
    \E channel_type \in ChannelTypes, d \in DelaySpreadArguments :
        /\ chan.phase = "none"
        /\ chan' = [chan EXCEPT !.phase = "built", !.defaults = FALSE,
                                !.obj = ChannelModel(channel_type, d)]
        /\ UNCHANGED othersOfChan

\* apply_channel(tx_signal)
ChanApply ==
    \E n \in 1..MaxSignalLen :
        LET call == apply_channel(chan.obj, n)
        IN /\ chan.phase = "built"
           /\ chan.obj.signals_processed < MaxSignals
           /\ chan' = [chan EXCEPT !.obj = call.obj,
                                   !.before = chan.obj.signals_processed,
                                   !.last = call]
           /\ UNCHANGED othersOfChan

\* the stages of a call ran in the order fading, multipath, AWGN, each at
\* most once
StageRank(stage) ==
    CASE stage = "fading" -> 1 [] stage = "multipath" -> 2 [] stage = "awgn" -> 3

InFixedOrder(stages) ==
    \A i, j \in 1..Len(stages) : i < j => StageRank(stages[i]) < StageRank(stages[j])

Ran(stage) == \E k \in 1..Len(chan.last.stages) : chan.last.stages[k] = stage

\* C28: a ChannelModel built with channel_type 'awgn' and no other non-default
\* argument applies neither fading nor multipath; apply_channel runs the
\* stages in the order fading, multipath, AWGN, each at most once, always
\* applies AWGN, returns a signal of the length of its input, leaves the
\* input unmodified and increments signals_processed by exactly one.
C28_AwgnOnlyChannel ==
    chan.last # NoResult =>
        /\ (chan.defaults /\ chan.obj.channel_type = "awgn")
               => (~Ran("fading") /\ ~Ran("multipath"))
        /\ chan.last.kind = "ok"
        /\ InFixedOrder(chan.last.stages)
        /\ Ran("awgn")
        /\ chan.last.output = chan.last.input
        /\ chan.last.input_after = chan.last.input
        /\ chan.obj.signals_processed = chan.before + 1

(***************************************************************************)
(* Sample/simurf/src/network_interface.py.  The listeners and the packet   *)
(* processor are threads over one stats dictionary and one queue.Queue.    *)
(* `stats[k] += 1` is a load and a store with no lock around them, so each *)
(* is two steps and tmp is the value the thread loaded.  The queue has its *)
(* own mutex: put_nowait and get are single steps.  A packet is written as *)
(* the number it was enqueued under and has one byte; read, dropped and    *)
(* callback_log record what happened and are not fields of the class.      *)
(***************************************************************************)
\* queue.Queue(maxsize=100)
maxsize == 100

Listeners == {"udp", "tcp"}

Thread(pc) == [pc |-> pc, tmp |-> 0]

\* NetworkInterface.__init__
NetworkInterface ==
    [running |-> FALSE,
     stats |-> [packets_received |-> 0, packets_processed |-> 0,
                packets_dropped |-> 0, bytes_received |-> 0],
     packet_queue |-> <<>>,
     listener |-> [t \in Listeners |-> Thread("none")],
     processor |-> Thread("none"), packet |-> 0,
     read |-> 0, enqueued |-> 0, dropped |-> 0, callback_log |-> <<>>,
     stepped |-> 0, ran |-> FALSE]

NetInit == net = NetworkInterface

othersOfNet == <<codec, crypto, fec, phy, rx, bridge, simMain, pcMain, rcv, emu,
                 collector, chan>>

\* packet_queue.put_nowait(packet): queue.Full when maxsize entries are held
put_nowait(n) ==
    IF Len(n.packet_queue) >= maxsize
    THEN [full |-> TRUE, net |-> n]
    ELSE [full |-> FALSE,
          net |-> [n EXCEPT !.packet_queue = Append(@, n.enqueued + 1),
                            !.enqueued = @ + 1]]

\* one pass of a listener's loop with no other thread running in between
listener_iteration(n) ==
    LET counted == [n EXCEPT !.read = @ + 1,
                             !.stats.packets_received = @ + 1,
                             !.stats.bytes_received = @ + 1]
        put == put_nowait(counted)
    IN IF put.full
       THEN [put.net EXCEPT !.dropped = @ + 1, !.stats.packets_dropped = @ + 1]
       ELSE put.net

RECURSIVE listener_run(_, _)
listener_run(n, k) ==
    IF k = 0 THEN n
    ELSE IF k = 1 THEN listener_iteration(n)
    ELSE LET first == listener_run(n, k \div 2)
         IN IF first.read = n.read + (k \div 2) THEN listener_run(first, k - (k \div 2))
            ELSE n

\* NetworkInterface.start: the UDP listener and the packet processor run
NetStart ==
    /\ ~net.running /\ net.listener["udp"].pc = "none"
    /\ net' = [net EXCEPT !.running = TRUE,
                          !.listener["udp"] = Thread("recv"),
                          !.processor = Thread("get")]
    /\ UNCHANGED othersOfNet

\* _tcp_listener: a client connects and gets a handler thread
TcpAccept ==
    /\ net.running /\ net.listener["tcp"].pc = "none"
    /\ net' = [net EXCEPT !.listener["tcp"] = Thread("recv")]
    /\ UNCHANGED othersOfNet

\* NetworkInterface.stop
NetStop ==
    /\ net.running
    /\ net' = [net EXCEPT !.running = FALSE]
    /\ UNCHANGED othersOfNet

\* `while self.running` read as false by a listener or by the processor
ListenerExit ==
    \E t \in Listeners :
        /\ ~net.running /\ net.listener[t].pc = "recv"
        /\ net' = [net EXCEPT !.listener[t] = Thread("done")]
        /\ UNCHANGED othersOfNet

ProcessorExit ==
    /\ ~net.running /\ net.processor.pc = "get"
    /\ net' = [net EXCEPT !.processor = Thread("done")]
    /\ UNCHANGED othersOfNet

\* the UDP listener handles MaxRun packets while the other threads are not
\* scheduled
ListenerRun ==
    /\ net.running /\ ~net.ran /\ net.listener["udp"].pc = "recv"
    /\ net' = [listener_run(net, MaxRun) EXCEPT !.ran = TRUE]
    /\ UNCHANGED othersOfNet

\* recvfrom / _recv_exact returns a packet; stats['packets_received'] is loaded
ListenerRecv ==
    \E t \in Listeners :
        /\ net.running /\ net.listener[t].pc = "recv"
        /\ net.stepped < MaxReads
        /\ net' = [net EXCEPT !.read = @ + 1, !.stepped = @ + 1,
                              !.listener[t] = [pc |-> "received_store",
                                               tmp |-> net.stats.packets_received]]
        /\ UNCHANGED othersOfNet

\* stats['packets_received'] is stored
ListenerStoreReceived ==
    \E t \in Listeners :
        /\ net.listener[t].pc = "received_store"
        /\ net' = [net EXCEPT !.stats.packets_received = net.listener[t].tmp + 1,
                              !.listener[t] = Thread("bytes_load")]
        /\ UNCHANGED othersOfNet

\* stats['bytes_received'] += len(data), load then store
ListenerLoadBytes ==
    \E t \in Listeners :
        /\ net.listener[t].pc = "bytes_load"
        /\ net' = [net EXCEPT !.listener[t] = [pc |-> "bytes_store",
                                               tmp |-> net.stats.bytes_received]]
        /\ UNCHANGED othersOfNet

ListenerStoreBytes ==
    \E t \in Listeners :
        /\ net.listener[t].pc = "bytes_store"
        /\ net' = [net EXCEPT !.stats.bytes_received = net.listener[t].tmp + 1,
                              !.listener[t] = Thread("put")]
        /\ UNCHANGED othersOfNet

\* put_nowait; on queue.Full the packet is dropped and stats['packets_dropped']
\* is loaded
ListenerPut ==
    \E t \in Listeners :
        LET put == put_nowait(net)
        IN /\ net.listener[t].pc = "put"
           /\ net' = IF put.full
                      THEN [put.net EXCEPT !.dropped = @ + 1,
                                           !.listener[t] = [pc |-> "dropped_store",
                                                            tmp |-> net.stats.packets_dropped]]
                      ELSE [put.net EXCEPT !.listener[t] = Thread("recv")]
           /\ UNCHANGED othersOfNet

\* stats['packets_dropped'] is stored
ListenerStoreDropped ==
    \E t \in Listeners :
        /\ net.listener[t].pc = "dropped_store"
        /\ net' = [net EXCEPT !.stats.packets_dropped = net.listener[t].tmp + 1,
                              !.listener[t] = Thread("recv")]
        /\ UNCHANGED othersOfNet

\* _packet_processor: packet_queue.get(timeout=1) returns a packet
ProcessorGet ==
    /\ net.running /\ net.processor.pc = "get"
    /\ net.packet_queue # <<>>
    /\ Len(net.callback_log) < MaxGets
    /\ net' = [net EXCEPT !.packet = Head(net.packet_queue),
                          !.packet_queue = Tail(@),
                          !.processor = Thread("callback")]
    /\ UNCHANGED othersOfNet

\* packet_callback(packet) returns or raises; stats['packets_processed'] is
\* loaded when it returned
ProcessorCallback ==
    \E raises \in BOOLEAN :
        /\ net.processor.pc = "callback"
        /\ net' = [net EXCEPT !.callback_log = Append(@, net.packet),
                              !.processor =
                                  IF raises THEN Thread("get")
                                  ELSE [pc |-> "processed_store",
                                        tmp |-> net.stats.packets_processed]]
        /\ UNCHANGED othersOfNet

\* stats['packets_processed'] is stored
ProcessorStoreProcessed ==
    /\ net.processor.pc = "processed_store"
    /\ net' = [net EXCEPT !.stats.packets_processed = net.processor.tmp + 1,
                          !.processor = Thread("get")]
    /\ UNCHANGED othersOfNet

\* no thread is in the middle of handling a packet
NoListenerMidPacket == \A t \in Listeners : net.listener[t].pc \in {"none", "recv", "done"}

NoThreadMidPacket ==
    NoListenerMidPacket /\ net.processor.pc \in {"none", "get", "done"}

\* C23: the packet queue never holds more than 100 entries; a listener that
\* receives a packet while the queue is full drops it, increments
\* packets_dropped by one and goes on receiving without blocking; the
\* accepted packets are handed to the callback in the order they were
\* enqueued.
C23_Backpressure ==
    /\ Len(net.packet_queue) <= 100
    /\ \A t \in Listeners :
           net.listener[t].pc \in {"none", "recv", "received_store", "bytes_load",
                                   "bytes_store", "put", "dropped_store", "done"}
    /\ NoListenerMidPacket => net.stats.packets_dropped = net.dropped
    /\ \A i \in 1..Len(net.callback_log) : net.callback_log[i] = i
    /\ \A i \in 1..Len(net.packet_queue) :
           net.packet_queue[i] = net.enqueued - Len(net.packet_queue) + i

\* C30: whenever no thread is in the middle of handling a packet,
\* packets_received is the number of packets read from the sockets and
\* packets_received = packets_processed + packets_dropped + queue size; no
\* increment of a shared counter is lost to an interleaving.
C30_StatisticsExact ==
    NoThreadMidPacket =>
        /\ net.stats.packets_received = net.read
        /\ net.stats.bytes_received = net.read
        /\ net.stats.packets_dropped = net.dropped
        /\ net.stats.packets_received
               = net.stats.packets_processed + net.stats.packets_dropped
                 + Len(net.packet_queue)

(***************************************************************************)
(* simurf/main.py: the threaded emulator.  The main thread runs start()    *)
(* and, after Ctrl+C, stop(); the handler thread runs packet_handler().    *)
(* Each action is one step of one thread, so the two interleave freely.    *)
(* `received` counts the datagrams recvfrom returned, `sent` holds for each *)
(* datagram that left the state of the output socket it left through, and  *)
(* `late_receives` counts the calls of recvfrom that returned after stop() *)
(* had cleared the running flag.                                           *)
(***************************************************************************)
EmuInit ==
    emu = [main |-> "not started", handler |-> "none", running |-> FALSE,
           input_socket |-> "None", output_socket |-> "None",
           received |-> 0, sent |-> <<>>, late_receives |-> 0,
           exit_code |-> "none"]

othersOfEmu == <<codec, crypto, fec, phy, rx, bridge, simMain, pcMain, rcv, collector,
                 net, chan>>

\* start() up to its loop: setup_sockets binds the input socket or raises
\* (main() then returns 1); the flag is set and the handler thread started
EmuStart ==
    \E bind_ok \in BOOLEAN :
        /\ emu.main = "not started"
        /\ PortFree
        /\ emu' = IF bind_ok
                  THEN [emu EXCEPT !.main = "sleeping", !.handler = "check",
                                   !.running = TRUE, !.input_socket = "open",
                                   !.output_socket = "open"]
                  ELSE [emu EXCEPT !.main = "exited", !.input_socket = "unbound",
                                   !.exit_code = "1"]
        /\ UNCHANGED othersOfEmu

\* Ctrl+C reaches the main thread in time.sleep: the finally block calls stop()
EmuInterrupt ==
    /\ emu.main = "sleeping"
    /\ emu' = [emu EXCEPT !.main = "stop"]
    /\ UNCHANGED othersOfEmu

\* stop(): self.running = False
EmuStopFlag ==
    /\ emu.main = "stop"
    /\ emu' = [emu EXCEPT !.main = "close input", !.running = FALSE]
    /\ UNCHANGED othersOfEmu

\* stop(): self.input_socket.close()
EmuCloseInput ==
    /\ emu.main = "close input"
    /\ emu' = [emu EXCEPT !.main = "close output", !.input_socket = "closed"]
    /\ UNCHANGED othersOfEmu

\* stop(): self.output_socket.close(); start() returns
EmuCloseOutput ==
    /\ emu.main = "close output"
    /\ emu' = [emu EXCEPT !.main = "returned", !.output_socket = "closed"]
    /\ UNCHANGED othersOfEmu

\* main() returns 0 and the interpreter exits; a daemon thread ends with it
EmuExit ==
    /\ emu.main = "returned"
    /\ emu' = [emu EXCEPT !.main = "exited", !.exit_code = "0",
                          !.handler = IF @ = "left" THEN @ ELSE "killed"]
    /\ UNCHANGED othersOfEmu

HandlerAlive == emu.main \notin {"not started", "exited"}

\* packet_handler: while self.running
HandlerCheck ==
    /\ HandlerAlive
    /\ emu.handler = "check"
    /\ emu' = [emu EXCEPT !.handler = IF emu.running THEN "recvfrom" ELSE "left"]
    /\ UNCHANGED othersOfEmu

\* packet_handler: recvfrom returns a datagram, or raises socket.timeout after
\* the receive timeout (continue), or raises OSError on a closed socket
\* (caught by except Exception)
HandlerReceive ==
    \E arrives \in BOOLEAN :
        /\ HandlerAlive
        /\ emu.handler = "recvfrom"
        /\ arrives => (emu.input_socket = "open" /\ emu.received < MaxEmuPackets)
        /\ emu' = [emu EXCEPT
                      !.handler = IF arrives THEN "process" ELSE "check",
                      !.received = IF arrives THEN @ + 1 ELSE @,
                      !.late_receives = IF emu.running THEN @ ELSE @ + 1]
        /\ UNCHANGED othersOfEmu

\* packet_handler: process_packet returns the recovered packet or None
HandlerProcess ==
    \E recovered \in BOOLEAN :
        /\ HandlerAlive
        /\ emu.handler = "process"
        /\ emu' = [emu EXCEPT !.handler = IF recovered THEN "sendto" ELSE "check"]
        /\ UNCHANGED othersOfEmu

\* a faulty sendto that delivers through a closed socket as well
sendto_AfterClose(e) == [e EXCEPT !.sent = Append(@, e.output_socket)]

\* the handler's call of sendto on the output socket: a closed socket raises
\* OSError, which except Exception catches
sendto(e) ==
    IF e.output_socket = "open" THEN [e EXCEPT !.sent = Append(@, e.output_socket)] ELSE e

\* packet_handler: self.output_socket.sendto(processed_data, ...)
HandlerSend ==
    /\ HandlerAlive
    /\ emu.handler = "sendto"
    /\ emu' = [sendto(emu) EXCEPT !.handler = "check"]
    /\ UNCHANGED othersOfEmu

(***************************************************************************)
(* Properties of the drivers                                               *)
(***************************************************************************)
\* egress follows the order of ingress and answers no datagram twice
InOrder(egress) ==
    \A i, j \in 1..Len(egress) : i < j => egress[i].of < egress[j].of

\* every egress datagram left before the next datagram was received
Prompt(egress) ==
    \A k \in 1..Len(egress) : egress[k].at = egress[k].of

\* two frames that carry the same seq, addresses and timestamp
SameHeader(a, b) ==
    /\ unpack(a).kind = "ok"
    /\ unpack(b).kind = "ok"
    /\ unpack(a).seq = unpack(b).seq
    /\ unpack(a).src_ip = unpack(b).src_ip
    /\ unpack(a).dst_ip = unpack(b).dst_ip
    /\ unpack(a).timestamp_ns = unpack(b).timestamp_ns

ReceivedBadDatagram(driver) ==
    \E i \in 1..Len(driver.ingress) : unpack(driver.ingress[i]).kind # "ok"

\* C8: after a datagram that fails to unpack, the packet loop of every driver
\* is still running (until the user interrupts it); the error does not end
\* the process.
C8_ErrorsNeverStopDriver ==
    \A driver \in {bridge, simMain, rcv} :
        ReceivedBadDatagram(driver) =>
            (driver.status = "running" \/ driver.stopped_by = "KeyboardInterrupt")

\* the receiver was launched with a configuration the spec calls invalid: no
\* readable configuration file, or a repetition factor outside 1..15
ConfigInvalid(r) ==
    r.status # "not started" /\ (r.config # "ok" \/ r.fec_repetition \notin 1..MAX_REPETITION)

\* the interrupt-driven shutdown met no failure
CleanShutdown(r) ==
    /\ r.status = "stopped"
    /\ r.stopped_by = "KeyboardInterrupt"
    /\ \A k \in 1..Len(r.shutdown) : r.shutdown[k] # "export_csv failed"

\* C24: the process exits with 0 after a clean interrupt-driven shutdown, with
\* 1 when the ingress socket cannot be bound and with 2 when the
\* configuration is invalid; a configuration error is fatal at startup and
\* never deferred to packet processing.
C24_ExitCodes ==
    /\ CleanShutdown(rcv) /\ ~ConfigInvalid(rcv) => rcv.exit_code = "0"
    /\ (simMain.status = "stopped" /\ simMain.stopped_by = "KeyboardInterrupt")
           => simMain.exit_code = "0"
    /\ (rcv.stopped_by = "bind" /\ ~ConfigInvalid(rcv)) => rcv.exit_code = "1"
    /\ simMain.stopped_by = "bind" => simMain.exit_code = "1"
    /\ ConfigInvalid(rcv) => /\ rcv.status = "stopped"
                             /\ rcv.exit_code = "2"
                             /\ rcv.packet_count = 0

\* the position of an event in the receiver's shutdown record, 0 if absent
EventAt(r, e) ==
    IF \E k \in 1..Len(r.shutdown) : r.shutdown[k] = e
    THEN CHOOSE k \in 1..Len(r.shutdown) : r.shutdown[k] = e
    ELSE 0

\* the receiver after Ctrl+C: the loop has stopped, the summary and the CSV
\* export (when a metrics file was named) came before close, the socket is
\* closed and main() returned an exit code
ReceiverShutDown ==
    (rcv.status = "stopped" /\ rcv.stopped_by = "KeyboardInterrupt") =>
        /\ EventAt(rcv, "summary") > 0
        /\ EventAt(rcv, "close") = Len(rcv.shutdown)
        /\ EventAt(rcv, "summary") < EventAt(rcv, "close")
        /\ rcv.metrics_file
               => \E k \in 1..(Len(rcv.shutdown) - 1) :
                      rcv.shutdown[k] \in {"export_csv", "export_csv failed"}
        /\ rcv.sock = "closed"
        /\ rcv.exit_code \in {"0", "1"}

\* the emulator after Ctrl+C: once stop() has returned both sockets are
\* closed and the flag is cleared; no datagram left through a closed socket;
\* after the flag was cleared at most one call of recvfrom returned, and the
\* handler is then back at the test of the flag or out of its loop; main()
\* returned an exit code
EmulatorShutDown ==
    /\ (emu.main \in {"returned", "exited"} /\ emu.input_socket # "unbound")
           => /\ emu.input_socket = "closed"
              /\ emu.output_socket = "closed"
              /\ ~emu.running
    /\ \A k \in 1..Len(emu.sent) : emu.sent[k] = "open"
    /\ emu.late_receives <= 1
    /\ emu.handler = "left" => ~emu.running
    /\ emu.main = "exited" => emu.exit_code \in {"0", "1"}

CrcFieldMatches(frame) ==
    /\ Len(frame) >= HEADER_SIZE
    /\ BytesToWord(SubSeq(frame, 23, 26)) = Crc32(SubSeq(frame, HEADER_SIZE + 1, Len(frame)))

\* every frame a simulator forwarded answers an ingress frame that unpacks,
\* carries its seq, addresses and timestamp, and unpacks itself
Repacked(driver) ==
    \A k \in 1..Len(driver.egress) :
        LET sent == driver.egress[k].data
            got == driver.ingress[driver.egress[k].of]
        IN /\ SameHeader(got, sent)
           /\ CrcFieldMatches(sent)

\* C19: for every ingress frame that unpacks and is forwarded, the egress
\* frame carries the same seq, src_ip, dst_ip and timestamp as the ingress
\* frame and its CRC field is the CRC-32 of the egress payload, so that
\* unpack of the egress frame succeeds.
C19_RepackPreservesHeader ==
    /\ Repacked(bridge)
    /\ Repacked(simMain)

\* a frame that unpacks but fails in FEC decoding or in decrypt
FailsAfterUnpack(r, data) ==
    LET pkt == unpack(data)
        fec_out == IF r.use_fec THEN fec_decode_with_stats(pkt.payload, r.fec_repetition)
                   ELSE [kind |-> "ok", bytes |-> pkt.payload, corrections |-> 0]
    IN /\ pkt.kind = "ok"
       /\ \/ fec_out.kind = "ValueError"
          \/ decrypt(DEFAULT_KEY, fec_out.bytes).kind = "ValueError"

\* one call of process_packet counts the packet under the stage that failed
CountedByStage ==
    (rcv.status = "running" /\ rcv'.status = "running"
     /\ rcv'.packet_count = rcv.packet_count + 1) =>
        LET data == Last(rcv'.ingress)
        IN /\ unpack(data).kind # "ok"
                  => /\ rcv'.crc_errors = rcv.crc_errors + 1
                     /\ rcv'.decode_errors = rcv.decode_errors
           /\ FailsAfterUnpack(rcv, data)
                  => /\ rcv'.decode_errors = rcv.decode_errors + 1
                     /\ rcv'.crc_errors = rcv.crc_errors

\* the outcome counters of the receiver
OutcomeCounters(r) == <<r.success_count, r.crc_errors, r.decode_errors>>

\* one call of process_packet: one more packet, one more outcome
CountersConserved ==
    (rcv.status = "running" /\ rcv'.status = "running"
     /\ rcv'.packet_count # rcv.packet_count) =>
        /\ rcv'.packet_count = rcv.packet_count + 1
        /\ OutcomeCounters(rcv') \in
               {<<rcv.success_count + 1, rcv.crc_errors, rcv.decode_errors>>,
                <<rcv.success_count, rcv.crc_errors + 1, rcv.decode_errors>>,
                <<rcv.success_count, rcv.crc_errors, rcv.decode_errors + 1>>}
        /\ (rcv'.returned = {TRUE}) <=> (rcv'.success_count = rcv.success_count + 1)
        /\ rcv'.returned \in {{TRUE}, {FALSE}}
        /\ rcv'.packet_count = rcv'.success_count + rcv'.crc_errors + rcv'.decode_errors
        /\ rcv'.metrics_collector.total_packets = rcv'.success_count

\* C29: after every call of process_packet, packet_count = success_count +
\* crc_errors + decode_errors; each call increments packet_count and exactly
\* one outcome counter by one, returns True exactly when success_count was
\* incremented, and the collector's total_packets equals success_count.
C29_CounterConservation == [][CountersConserved]_vars

\* two calls, one decoded and one rejected
C29_Witness ==
    /\ rcv.packet_count = 2
    /\ rcv.success_count = 1
    /\ rcv.crc_errors = 1
    /\ rcv.decode_errors = 0
    /\ rcv.metrics_collector.total_packets = 1
    /\ rcv.returned = {FALSE}

\* C20: in SimURFReceiver.process_packet a packet rejected by unpack
\* increments crc_errors only, and a packet that unpacks but fails in FEC
\* decoding or in decrypt increments decode_errors only and leaves crc_errors
\* unchanged.
C20_ErrorCountersByStage == [][CountedByStage]_vars

(***************************************************************************)
(* Specifications: one for each component, all over the same variables     *)
(***************************************************************************)
Init ==
    /\ CodecInit
    /\ CryptoInit
    /\ FecInit
    /\ PhyInit
    /\ RxInit
    /\ BridgeInit
    /\ SimMainInit
    /\ PcMainInit
    /\ RcvInit
    /\ EmuInit
    /\ CollectorInit
    /\ NetInit
    /\ ChanInit

NextCodec ==
    \/ CodecPack(HeaderChoices, PayloadBytes)
    \/ CodecFlipPayload(FlipMasks)
    \/ CodecSetLength
    \/ CodecFlipCrc
    \/ CodecTruncate
    \/ CodecUnpack

\* the CRC scenario: one header, every change of one payload byte
NextCrc ==
    \/ CodecPack(ScenarioHeader, CrcPayloadBytes)
    \/ CodecFlipPayload(AllMasks)
    \/ CodecUnpack

NextCrypto == CryptoNew \/ CryptoEncrypt \/ CryptoDecrypt \/ CryptoDecryptReceived

NextFec == FecNew \/ FecEncode \/ FecCorrupt \/ FecDecode \/ FecDecodeReceived

NextPhy == PhyModulate \/ PhyTransmitFrame \/ PhyDemodulate \/ PhyExtract \/ PhyBitsToPacket

NextRx == RxNew \/ RxReceive \/ RxEstimateBer \/ RxResetStats

NextMetrics == CollectorNew \/ CollectorAdd \/ CollectorSummary \/ CollectorReset

NextNet ==
    \/ NetStart \/ TcpAccept \/ NetStop \/ ListenerExit \/ ProcessorExit
    \/ ListenerRun \/ ListenerRecv \/ ListenerStoreReceived \/ ListenerLoadBytes
    \/ ListenerStoreBytes \/ ListenerPut \/ ListenerStoreDropped
    \/ ProcessorGet \/ ProcessorCallback \/ ProcessorStoreProcessed

NextChan == ChanNewDefault \/ ChanNew \/ ChanApply

NextShutdown ==
    \/ RcvStart
    \/ RcvIterate
    \/ RcvInterrupt
    \/ RcvInterruptProcessing
    \/ EmuStart
    \/ EmuInterrupt
    \/ EmuStopFlag
    \/ EmuCloseInput
    \/ EmuCloseOutput
    \/ EmuExit
    \/ HandlerCheck
    \/ HandlerReceive
    \/ HandlerProcess
    \/ HandlerSend

NextDrivers ==
    \/ BridgeStart
    \/ BridgeIterate
    \/ BridgeInterrupt
    \/ SimMainStart
    \/ SimMainIterate
    \/ SimMainInterrupt
    \/ PcMainStart
    \/ PcMainArrive
    \/ PcMainIterate
    \/ PcMainInterrupt
    \/ RcvStart
    \/ RcvIterate
    \/ RcvInterrupt
    \/ RcvInterruptProcessing

Next ==
    \/ NextCodec
    \/ NextCrc
    \/ NextCrypto
    \/ NextFec
    \/ NextPhy
    \/ NextRx
    \/ NextDrivers
    \/ NextShutdown
    \/ NextMetrics
    \/ NextNet
    \/ NextChan

SpecCodec == Init /\ [][NextCodec]_vars
SpecCrc == Init /\ [][NextCrc]_vars
SpecCrypto == Init /\ [][NextCrypto]_vars
SpecFec == Init /\ [][NextFec]_vars
SpecPhy == Init /\ [][NextPhy]_vars
SpecRx == Init /\ [][NextRx]_vars
SpecDrivers == Init /\ [][NextDrivers]_vars
SpecShutdown == Init /\ [][NextShutdown]_vars
SpecMetrics == Init /\ [][NextMetrics]_vars
SpecNet == Init /\ [][NextNet]_vars
SpecChan == Init /\ [][NextChan]_vars
Spec == Init /\ [][Next]_vars

====
